---- MODULE Spec2Model ----
(***************************************************************************)
(* A model of the structural value trimmer of package logger               *)
(* (TrimObjectWithOpts and the functions it calls) over a universe of Go   *)
(* values as package reflect presents them.                                *)
(*                                                                         *)
(* A Go value is a record with a kind (reflect.Kind), a typ (the name of   *)
(* its Go type, which the special-type switch compares) and the payload of *)
(* its kind.  Values nest inline; a value that reaches itself (through a   *)
(* pointer, a slice or a map, Go's reference types) is written with an     *)
(* Alias to a cell of heap.  A trimmed value is a record tagged by t.      *)
(***************************************************************************)
EXTENDS Integers, Sequences, FiniteSets, TLC

(***************************************************************************)
(* Bounds of the checked universe.                                         *)
(***************************************************************************)
\* longest string the inputs hold
MaxStrLen == 4
\* longest slice the inputs hold
MaxSliceLen == 3
\* deepest chain of wrappers around a leaf
MaxNest == 3
\* largest value given to WithArrLimit, WithStrLimit and WithDeepLimit
MaxArrLmt == 2
MaxStrLmt == 3
MaxDeepLmt == 3
\* frames the goroutine stack holds before the runtime ends the process
MaxStack == 12
\* iterations of the pointer loop after which it is known never to exit
MaxIter == 8
\* options of one call
MaxOpts == 2

(***************************************************************************)
(* Program constants.                                                      *)
(***************************************************************************)
defaultArrLimit == 3
defaultStrLimit == 128
defaultDeepLimit == 10
defaultWholeLimit == 4096

(***************************************************************************)
(* Strings are sequences of one-character strings, so that slicing,        *)
(* prefix tests and concatenation are what the code does.                  *)
(***************************************************************************)
Ellipsis == <<".", ".", ".">>
SizePrefix == <<"_", "s", "i", "z", "e", "_", "_">>
ProtoPrefix == <<"X", "X", "X", "_">>
PanicPrefix ==
  <<"p", "a", "n", "i", "c", " ", "r", "e", "c", "o", "v", "e", "r", "y", ":", " ">>
\* the text of the runtime error raised by calling a nil func value
NilDerefText ==
  <<"r", "u", "n", "t", "i", "m", "e", " ", "e", "r", "r", "o", "r", ":", " ",
    "i", "n", "v", "a", "l", "i", "d", " ", "m", "e", "m", "o", "r", "y", " ",
    "a", "d", "d", "r", "e", "s", "s", " ", "o", "r", " ", "n", "i", "l", " ",
    "p", "o", "i", "n", "t", "e", "r", " ", "d", "e", "r", "e", "f", "e", "r",
    "e", "n", "c", "e">>
\* reflect.Value.String() of a value whose kind is not String: "<T Value>"
IntValueText == <<"<", "i", "n", "t", " ", "V", "a", "l", "u", "e", ">">>
UpperCase ==
  {"A", "B", "C", "D", "E", "F", "G", "H", "I", "J", "K", "L", "M", "N", "O",
   "P", "Q", "R", "S", "T", "U", "V", "W", "X", "Y", "Z"}

HasPrefix(s, p) == Len(s) >= Len(p) /\ SubSeq(s, 1, Len(p)) = p

\* strings.Index(s, c) for a one-character c: the 0-based position, or -1
Index(s, c) ==
  IF \E i \in 1..Len(s) : s[i] = c
  THEN (CHOOSE i \in 1..Len(s) : s[i] = c /\ \A j \in 1..(i - 1) : s[j] # c) - 1
  ELSE -1

(***************************************************************************)
(* package reflect: the zero Value, and the accessors the trimmer uses.    *)
(* A Value read through an unexported struct field carries the read-only   *)
(* flag ro, and so does whatever is read through it.                       *)
(***************************************************************************)
\* reflect.ValueOf(nil), also the nil interface value
NilV == [kind |-> "Invalid"]

Resolve(h, x) == IF x.kind = "Alias" THEN h[x.addr] ELSE x

CanInterface(v) == "ro" \notin DOMAIN v

MarkRO(x) == IF "ro" \in DOMAIN x THEN x ELSE x @@ [ro |-> TRUE]

Flagged(v, x) == IF CanInterface(v) THEN x ELSE MarkRO(x)

IsNil(v) ==
  \/ v.kind = "Ptr" /\ v.elem.kind = "Invalid"
  \/ v.kind = "Interface" /\ v.dyn.kind = "Invalid"

\* v.Elem() of a pointer: the zero Value when the pointer is nil
Elem(h, v) == Flagged(v, Resolve(h, v.elem))

\* a field is exported when its name starts with an upper-case letter
Exported(name) == Len(name) > 0 /\ name[1] \in UpperCase

Field(h, v, i) ==
  LET f == v.fields[i]
      x == Flagged(v, Resolve(h, f.val))
  IN IF Exported(f.name) THEN x ELSE MarkRO(x)

ValueIndex(h, v, i) == Flagged(v, Resolve(h, v.elems[i]))

MapIndex(h, v, i) == Flagged(v, Resolve(h, v.entries[i].val))

\* k.String() of the i-th key v.MapKeys() yields
KeyString(v, i) ==
  LET k == v.entries[i].key IN IF k.kind = "String" THEN k.val ELSE IntValueText

\* fv.Interface() of a Value of kind Interface: the value it holds, or nil
Interface(h, v) == Resolve(h, v.dyn)

(***************************************************************************)
(* Trimmed values.                                                         *)
(***************************************************************************)
NilR == [t |-> "nil"]
ScalarR(t, x) == [t |-> t, v |-> x]
StrR(s) == [t |-> "string", v |-> s]
SeqR(q) == [t |-> "seq", v |-> q]
\* a mapping; seen counts the fields or keys its traverser went through
MapR(f, n) == [t |-> "map", v |-> f, seen |-> n]
EmptyFcn == [k \in {} |-> NilR]
\* the call never returns: the stack is exhausted, or the pointer loop spins
Overflow == [t |-> "overflow"]
Hang == [t |-> "hang"]
IsAbort(r) == r.t \in {"overflow", "hang"}

Put(m, k, x) ==
  [m EXCEPT !.v = [y \in (DOMAIN m.v) \cup {k} |-> IF y = k THEN x ELSE m.v[y]]]

\* len(sv) of a map[string]any or []any
LenR(r) == IF r.t = "map" THEN Cardinality(DOMAIN r.v) ELSE Len(r.v)

(***************************************************************************)
(* StringLimit, visibleName, isNonValuableType and the scalar classifiers. *)
(***************************************************************************)
\* StringLimit that cuts the string and leaves the ellipsis out
StringLimitNoEllipsis(s, limit) ==
  IF limit <= 0 THEN s
  ELSE IF Len(s) > limit THEN SubSeq(s, 1, limit)
  ELSE s

StringLimit(s, limit) ==
  IF limit <= 0 THEN s
  ELSE IF Len(s) > limit THEN SubSeq(s, 1, limit) \o Ellipsis
  ELSE s

visibleName(filedName, ignores) ==
  IF Cardinality(ignores) > 0 /\ filedName \in ignores THEN FALSE
  ELSE IF HasPrefix(filedName, ProtoPrefix) THEN FALSE
  ELSE TRUE

isNonValuableType(v) ==
  \/ v = NilV
  \/ ~CanInterface(v)
  \/ v.kind = "Ptr" /\ IsNil(v)
  \/ v.kind = "Interface" /\ IsNil(v)
  \/ v.kind = "Invalid"

\* time.Time.Format("2006-01-02T15:04:05.000") of the instants the inputs hold:
\* 0 is the zero time, 1 the Unix epoch in UTC
timeFormat(t) ==
  IF t = 0
  THEN <<"0", "0", "0", "1", "-", "0", "1", "-", "0", "1", "T",
         "0", "0", ":", "0", "0", ":", "0", "0", ".", "0", "0", "0">>
  ELSE <<"1", "9", "7", "0", "-", "0", "1", "-", "0", "1", "T",
         "0", "0", ":", "0", "0", ":", "0", "0", ".", "0", "0", "0">>

\* time.Duration.String() of the durations the inputs hold, in nanoseconds
durationString(d) ==
  CASE d = 0 -> <<"0", "s">>
    [] d = 1 -> <<"1", "n", "s">>
    [] d = 1000000000 -> <<"1", "s">>
    [] OTHER -> <<"2", "s">>

\* (*errors.errorString).Error(): the field s of the struct pointed to
errorText(h, v) == Resolve(h, Resolve(h, v.elem).fields[1].val).val

NotOk == [ok |-> FALSE, val |-> NilR]
Ok(r) == [ok |-> TRUE, val |-> r]

valOfSpecialType(h, v, arrLmt, strLmt) ==
  IF isNonValuableType(v) THEN NotOk
  ELSE CASE v.typ = "string" -> Ok(StrR(StringLimit(v.val, strLmt)))
         [] v.typ = "*errors.errorString" -> Ok(StrR(errorText(h, v)))
         [] v.typ = "time.Time" -> Ok(StrR(timeFormat(v.val)))
         [] v.typ = "time.Duration" -> Ok(StrR(durationString(v.val)))
         [] OTHER -> NotOk

IntKinds == {"Int", "Int8", "Int16", "Int32", "Int64"}
UintKinds == {"Uint", "Uint8", "Uint16", "Uint32", "Uint64", "Uintptr"}
FloatKinds == {"Float32", "Float64"}
ComplexKinds == {"Complex64", "Complex128"}

valOfPrimaryType(h, v0, arrLmt, strLmt) ==
  IF isNonValuableType(v0) THEN NotOk
  ELSE LET v == IF v0.kind = "Ptr" THEN Elem(h, v0) ELSE v0 IN
       CASE v.kind = "Bool" -> Ok(ScalarR("bool", v.val))
         [] v.kind \in IntKinds -> Ok(ScalarR("int64", v.val))
         [] v.kind \in UintKinds -> Ok(ScalarR("uint64", v.val))
         [] v.kind \in FloatKinds -> Ok(ScalarR("float64", v.val))
         [] v.kind \in ComplexKinds -> Ok(ScalarR("complex128", v.val))
         [] v.kind = "String" -> Ok(StrR(StringLimit(v.val, strLmt)))
         [] OTHER -> NotOk

valOfSupportType(h, v, arrLmt, strLmt) ==
  IF isNonValuableType(v) THEN NotOk
  ELSE LET special == valOfSpecialType(h, v, arrLmt, strLmt) IN
       IF special.ok THEN special
       ELSE LET primary == valOfPrimaryType(h, v, arrLmt, strLmt) IN
            IF primary.ok THEN primary ELSE NotOk

(***************************************************************************)
(* The traversers.  fuel is the number of frames the stack still holds:    *)
(* every call of a traverser takes one, and a call made with none left     *)
(* exhausts the stack.  A traverser that gets Overflow or Hang from a call *)
(* it makes never continues.                                               *)
(***************************************************************************)
RECURSIVE ptrLoop(_, _, _)
RECURSIVE trimObject(_, _, _, _, _, _, _)
RECURSIVE trimStruct(_, _, _, _, _, _, _)
RECURSIVE structLoop(_, _, _, _, _, _, _, _, _)
RECURSIVE trimMap(_, _, _, _, _, _, _)
RECURSIVE mapLoop(_, _, _, _, _, _, _, _, _)
RECURSIVE trimSlice(_, _, _, _, _, _, _)
RECURSIVE sliceLoop(_, _, _, _, _, _, _, _, _, _)

\* if v.Kind() == reflect.Ptr { v = v.Elem() }: one level and no more
ptrLoopOnce(h, v, n) == IF v.kind # "Ptr" THEN v ELSE Elem(h, v)

\* for v.Kind() == reflect.Ptr { v = v.Elem() }, n iterations at most
ptrLoop(h, v, n) ==
  IF v.kind # "Ptr" THEN v
  ELSE IF n = 0 THEN [kind |-> "Spin"]
  ELSE ptrLoop(h, Elem(h, v), n - 1)

\* the switch of trimObject with an empty mapping for the kinds it has no case for
objectSwitchEmptyMap(h, v, arrLmt, strLmt, deepLmt, ignores, fuel) ==
  CASE v.kind = "Spin" -> Hang
    [] v.kind = "Struct" ->
         trimStruct(h, v, arrLmt, strLmt, deepLmt - 1, ignores, fuel - 1)
    [] v.kind = "Map" ->
         trimMap(h, v, arrLmt, strLmt, deepLmt - 1, ignores, fuel - 1)
    [] v.kind \in {"Array", "Slice"} ->
         trimSlice(h, v, arrLmt, strLmt, deepLmt, ignores, fuel - 1)
    [] OTHER -> MapR(EmptyFcn, 0)

\* the switch of trimObject with the depth limit passed on as it is
objectSwitchSameDepth(h, v, arrLmt, strLmt, deepLmt, ignores, fuel) ==
  CASE v.kind = "Spin" -> Hang
    [] v.kind = "Struct" ->
         trimStruct(h, v, arrLmt, strLmt, deepLmt, ignores, fuel - 1)
    [] v.kind = "Map" ->
         trimMap(h, v, arrLmt, strLmt, deepLmt, ignores, fuel - 1)
    [] v.kind \in {"Array", "Slice"} ->
         trimSlice(h, v, arrLmt, strLmt, deepLmt, ignores, fuel - 1)
    [] OTHER -> NilR

\* switch v.Kind() of trimObject, v what the pointer loop ends on
objectSwitch(h, v, arrLmt, strLmt, deepLmt, ignores, fuel) ==
  CASE v.kind = "Spin" -> Hang
    [] v.kind = "Struct" ->
         trimStruct(h, v, arrLmt, strLmt, deepLmt - 1, ignores, fuel - 1)
    [] v.kind = "Map" ->
         trimMap(h, v, arrLmt, strLmt, deepLmt - 1, ignores, fuel - 1)
    [] v.kind \in {"Array", "Slice"} ->
         trimSlice(h, v, arrLmt, strLmt, deepLmt, ignores, fuel - 1)
    [] OTHER -> NilR

\* trimObject with a check of deepLmt before anything else
trimObjectDepthFirst(h, obj, arrLmt, strLmt, deepLmt, ignores, fuel) ==
  IF fuel = 0 THEN Overflow
  ELSE IF deepLmt <= 0 THEN NilR
  ELSE IF obj = NilV THEN NilR
  ELSE IF isNonValuableType(obj) THEN NilR
  ELSE LET s == valOfSupportType(h, obj, arrLmt, strLmt) IN
       IF s.ok THEN s.val
       ELSE objectSwitch(h, ptrLoop(h, obj, MaxIter), arrLmt, strLmt, deepLmt,
                         ignores, fuel)

trimObject(h, obj, arrLmt, strLmt, deepLmt, ignores, fuel) ==
  IF fuel = 0 THEN Overflow
  ELSE IF obj = NilV THEN NilR
  ELSE IF isNonValuableType(obj) THEN NilR
  ELSE LET s == valOfSupportType(h, obj, arrLmt, strLmt) IN
       IF s.ok THEN s.val
       ELSE objectSwitch(h, ptrLoop(h, obj, MaxIter), arrLmt, strLmt, deepLmt,
                         ignores, fuel)

\* the key a struct field is emitted under: the name segment of its json tag
\* when that is not empty, its declared name otherwise
\* the key a struct field is emitted under, with the whole tag for its name
fieldNameWholeTag(f) == IF f.tag # <<>> THEN f.tag ELSE f.name

fieldName(f) ==
  IF f.tag # <<>>
  THEN LET idx == Index(f.tag, ",")
           tag == IF idx >= 0 THEN SubSeq(f.tag, 1, idx) ELSE f.tag
       IN IF tag # <<>> THEN tag ELSE f.name
  ELSE f.name

\* if sv := ...; len(sv) > 0 { m[fieldName] = sv }
attachNonEmpty(m, name, sv) ==
  IF IsAbort(sv) THEN sv
  ELSE IF LenR(sv) > 0 THEN Put(m, name, sv) ELSE m

\* the slice case of trimStruct without the size of the field
attachSliceNoSize(m, name, sv, n) ==
  IF IsAbort(sv) THEN sv
  ELSE IF LenR(sv) > 0 THEN Put(m, name, sv) ELSE m

\* the slice case of trimStruct: the trimmed sequence and the size of the field
attachSlice(m, name, sv, n) ==
  IF IsAbort(sv) THEN sv
  ELSE IF LenR(sv) > 0
       THEN Put(Put(m, name, sv), SizePrefix \o name, ScalarR("int", n))
       ELSE m

\* if iv := trimObject(...); iv != nil { m[fieldName] = iv }
attachNonNil(m, name, iv) ==
  IF IsAbort(iv) THEN iv
  ELSE IF iv # NilR THEN Put(m, name, iv) ELSE m

\* m[k.String()] = ...
attach(m, k, r) == IF IsAbort(r) THEN r ELSE Put(m, k, r)

\* arr = append(arr, ...)
appendElem(arr, r) == IF IsAbort(r) THEN r ELSE SeqR(Append(arr.v, r))

\* if fv.Kind() == reflect.Ptr { fv = fv.Elem() }
derefOnce(h, fv) == IF fv.kind = "Ptr" THEN Elem(h, fv) ELSE fv

\* switch fv.Kind() of trimStruct
structSwitch(h, fv, name, m, arrLmt, strLmt, deepLmt, ignores, fuel) ==
  CASE fv.kind = "Struct" ->
         attachNonEmpty(m, name,
           trimStruct(h, fv, arrLmt, strLmt, deepLmt - 1, ignores, fuel - 1))
    [] fv.kind = "Map" ->
         attachNonEmpty(m, name,
           trimMap(h, fv, arrLmt, strLmt, deepLmt - 1, ignores, fuel - 1))
    [] fv.kind \in {"Array", "Slice"} ->
         attachSlice(m, name,
           trimSlice(h, fv, arrLmt, strLmt, deepLmt, ignores, fuel - 1),
           Len(fv.elems))
    [] fv.kind = "Interface" ->
         attachNonNil(m, name,
           trimObject(h, Interface(h, fv), arrLmt, strLmt, deepLmt - 1, ignores,
                      fuel - 1))
    [] OTHER -> m

\* the body of the loop of trimStruct from fv := v.Field(i) on
structValue(h, fv, name, m, arrLmt, strLmt, deepLmt, ignores, fuel) ==
  IF isNonValuableType(fv) THEN m
  ELSE LET s == valOfSupportType(h, fv, arrLmt, strLmt) IN
       IF s.ok THEN Put(m, name, s.val)
       ELSE structSwitch(h, derefOnce(h, fv), name, m, arrLmt, strLmt, deepLmt,
                         ignores, fuel)

\* one iteration of the loop of trimStruct over field i, m the mapping so far
structField(h, v, i, m, arrLmt, strLmt, deepLmt, ignores, fuel) ==
  IF v.fields[i].tag = <<"-">> THEN m
  ELSE IF ~visibleName(fieldName(v.fields[i]), ignores) THEN m
  ELSE structValue(h, Field(h, v, i), fieldName(v.fields[i]), m, arrLmt, strLmt,
                   deepLmt, ignores, fuel)

structLoop(h, v, i, m, arrLmt, strLmt, deepLmt, ignores, fuel) ==
  IF IsAbort(m) THEN m
  ELSE IF i > Len(v.fields) THEN m
  ELSE structLoop(h, v, i + 1,
                  structField(h, v, i, [m EXCEPT !.seen = @ + 1], arrLmt, strLmt,
                              deepLmt, ignores, fuel),
                  arrLmt, strLmt, deepLmt, ignores, fuel)

\* trimStruct with the check of deepLmt after the loop over the fields
trimStructLateCheck(h, v, arrLmt, strLmt, deepLmt, ignores, fuel) ==
  IF fuel = 0 THEN Overflow
  ELSE structLoop(h, v, 1, MapR(EmptyFcn, 0), arrLmt, strLmt, deepLmt, ignores, fuel)

trimStruct(h, v, arrLmt, strLmt, deepLmt, ignores, fuel) ==
  IF fuel = 0 THEN Overflow
  ELSE IF deepLmt <= 0 THEN MapR(EmptyFcn, 0)
  ELSE structLoop(h, v, 1, MapR(EmptyFcn, 0), arrLmt, strLmt, deepLmt, ignores, fuel)

\* the switch of trimMap with nested maps and structs at the depth of the map
mapSwitchSameDepth(h, fv, k, m, arrLmt, strLmt, deepLmt, ignores, fuel) ==
  CASE fv.kind = "Map" ->
         attach(m, k, trimMap(h, fv, arrLmt, strLmt, deepLmt, ignores, fuel - 1))
    [] fv.kind = "Struct" ->
         attach(m, k, trimStruct(h, fv, arrLmt, strLmt, deepLmt, ignores, fuel - 1))
    [] fv.kind \in {"Array", "Slice"} ->
         attach(m, k, trimSlice(h, fv, arrLmt, strLmt, deepLmt, ignores, fuel - 1))
    [] fv.kind = "Interface" ->
         attach(m, k, trimObject(h, Interface(h, fv), arrLmt, strLmt, deepLmt - 1,
                                 ignores, fuel - 1))
    [] OTHER -> m

\* switch fv.Kind() of trimMap
mapSwitch(h, fv, k, m, arrLmt, strLmt, deepLmt, ignores, fuel) ==
  CASE fv.kind = "Map" ->
         attach(m, k, trimMap(h, fv, arrLmt, strLmt, deepLmt - 1, ignores, fuel - 1))
    [] fv.kind = "Struct" ->
         attach(m, k, trimStruct(h, fv, arrLmt, strLmt, deepLmt - 1, ignores, fuel - 1))
    [] fv.kind \in {"Array", "Slice"} ->
         attach(m, k, trimSlice(h, fv, arrLmt, strLmt, deepLmt, ignores, fuel - 1))
    [] fv.kind = "Interface" ->
         attach(m, k, trimObject(h, Interface(h, fv), arrLmt, strLmt, deepLmt - 1,
                                 ignores, fuel - 1))
    [] OTHER -> m

\* the body of the loop of trimMap from fv := v.MapIndex(k) on
mapValue(h, fv, k, m, arrLmt, strLmt, deepLmt, ignores, fuel) ==
  IF isNonValuableType(fv) THEN m
  ELSE LET s == valOfSupportType(h, fv, arrLmt, strLmt) IN
       IF s.ok THEN Put(m, k, s.val)
       ELSE mapSwitch(h, derefOnce(h, fv), k, m, arrLmt, strLmt, deepLmt, ignores,
                      fuel)

\* one iteration of the loop of trimMap over the i-th key of v.MapKeys()
mapKey(h, v, i, m, arrLmt, strLmt, deepLmt, ignores, fuel) ==
  IF ~visibleName(KeyString(v, i), ignores) THEN m
  ELSE mapValue(h, MapIndex(h, v, i), KeyString(v, i), m, arrLmt, strLmt, deepLmt,
                ignores, fuel)

mapLoop(h, v, i, m, arrLmt, strLmt, deepLmt, ignores, fuel) ==
  IF IsAbort(m) THEN m
  ELSE IF i > Len(v.entries) THEN m
  ELSE mapLoop(h, v, i + 1,
               mapKey(h, v, i, [m EXCEPT !.seen = @ + 1], arrLmt, strLmt, deepLmt,
                      ignores, fuel),
               arrLmt, strLmt, deepLmt, ignores, fuel)

\* trimMap that returns the empty map only below zero
trimMapOffByOne(h, v, arrLmt, strLmt, deepLmt, ignores, fuel) ==
  IF fuel = 0 THEN Overflow
  ELSE IF deepLmt < 0 THEN MapR(EmptyFcn, 0)
  ELSE IF v.kind # "Map" THEN MapR(EmptyFcn, 0)
  ELSE mapLoop(h, v, 1, MapR(EmptyFcn, 0), arrLmt, strLmt, deepLmt, ignores, fuel)

trimMap(h, v, arrLmt, strLmt, deepLmt, ignores, fuel) ==
  IF fuel = 0 THEN Overflow
  ELSE IF deepLmt <= 0 THEN MapR(EmptyFcn, 0)
  ELSE IF v.kind # "Map" THEN MapR(EmptyFcn, 0)
  ELSE mapLoop(h, v, 1, MapR(EmptyFcn, 0), arrLmt, strLmt, deepLmt, ignores, fuel)

\* switch fv.Kind() of trimSlice: an inner array or slice is left out
sliceSwitch(h, fv, arr, arrLmt, strLmt, deepLmt, ignores, fuel) ==
  CASE fv.kind = "Struct" ->
         appendElem(arr,
           trimStruct(h, fv, arrLmt, strLmt, deepLmt - 1, ignores, fuel - 1))
    [] fv.kind = "Map" ->
         appendElem(arr,
           trimMap(h, fv, arrLmt, strLmt, deepLmt - 1, ignores, fuel - 1))
    [] fv.kind = "Interface" ->
         appendElem(arr,
           trimObject(h, Interface(h, fv), arrLmt, strLmt, deepLmt - 1, ignores,
                      fuel - 1))
    [] OTHER -> arr

\* one iteration of the loop of trimSlice, fv the element v.Index(i)
sliceElem(h, fv, arr, arrLmt, strLmt, deepLmt, ignores, fuel) ==
  IF isNonValuableType(fv) THEN arr
  ELSE LET s == valOfSupportType(h, fv, arrLmt, strLmt) IN
       IF s.ok THEN SeqR(Append(arr.v, s.val))
       ELSE sliceSwitch(h, derefOnce(h, fv), arr, arrLmt, strLmt, deepLmt, ignores,
                        fuel)

sliceLoop(h, v, i, l, arr, arrLmt, strLmt, deepLmt, ignores, fuel) ==
  IF IsAbort(arr) THEN arr
  ELSE IF i > l THEN arr
  ELSE sliceLoop(h, v, i + 1, l,
                 sliceElem(h, ValueIndex(h, v, i), arr, arrLmt, strLmt, deepLmt,
                           ignores, fuel),
                 arrLmt, strLmt, deepLmt, ignores, fuel)

\* the bound of the loop of trimSlice without the cap
sliceBoundNoCap(n, arrLmt) == n

\* the bound of the loop of trimSlice with the cap one short
sliceBoundOneShort(n, arrLmt) == IF n > arrLmt THEN arrLmt - 1 ELSE n

\* l := v.Len(); if l > arrLmt { l = arrLmt }
sliceBound(n, arrLmt) == IF n > arrLmt THEN arrLmt ELSE n

trimSlice(h, v, arrLmt, strLmt, deepLmt, ignores, fuel) ==
  IF fuel = 0 THEN Overflow
  ELSE IF Len(v.elems) = 0 THEN SeqR(<<>>)
  ELSE sliceLoop(h, v, 1, sliceBound(Len(v.elems), arrLmt), SeqR(<<>>), arrLmt,
                 strLmt, deepLmt, ignores, fuel)

\* the ignore list as the set of its names (the keys of ignoreMap)
trimObjectWithIgnores(h, obj, arrLmt, strLmt, deepLmt, ignores) ==
  trimObject(h, obj, arrLmt, strLmt, deepLmt,
             {ignores[i] : i \in 1..Len(ignores)}, MaxStack)

(***************************************************************************)
(* The options and the public entry points.                                *)
(***************************************************************************)
WithArrLimit(limit) == [op |-> "WithArrLimit", limit |-> limit]
WithStrLimit(limit) == [op |-> "WithStrLimit", limit |-> limit]
WithDeepLimit(limit) == [op |-> "WithDeepLimit", limit |-> limit]
WithWholeLimit(limit) == [op |-> "WithWholeLimit", limit |-> limit]
WithIgnores(ignores) == [op |-> "WithIgnores", ignores |-> ignores]
\* a nil TrimOption, and a TrimOption of the caller's that panics with a text
NilOption == [op |-> "nil"]
PanicOption(text) == [op |-> "panic", text |-> text]

ObjectTrimmer ==
  [ArrLimit |-> defaultArrLimit, StrLimit |-> defaultStrLimit,
   DeepLimit |-> defaultDeepLimit, WholeLimit |-> defaultWholeLimit,
   Ignores |-> <<>>]

\* opt(trimmer) with a WithIgnores that adds its names to the ones set before
applyOptionAddIgnores(t, opt) ==
  CASE opt.op = "WithArrLimit" -> [t EXCEPT !.ArrLimit = opt.limit]
    [] opt.op = "WithStrLimit" -> [t EXCEPT !.StrLimit = opt.limit]
    [] opt.op = "WithDeepLimit" -> [t EXCEPT !.DeepLimit = opt.limit]
    [] opt.op = "WithWholeLimit" -> [t EXCEPT !.WholeLimit = opt.limit]
    [] opt.op = "WithIgnores" -> [t EXCEPT !.Ignores = @ \o opt.ignores]

\* opt(trimmer) with a WithWholeLimit that sets the array limit
applyOptionWholeIsArr(t, opt) ==
  CASE opt.op = "WithArrLimit" -> [t EXCEPT !.ArrLimit = opt.limit]
    [] opt.op = "WithStrLimit" -> [t EXCEPT !.StrLimit = opt.limit]
    [] opt.op = "WithDeepLimit" -> [t EXCEPT !.DeepLimit = opt.limit]
    [] opt.op = "WithWholeLimit" -> [t EXCEPT !.ArrLimit = opt.limit]
    [] opt.op = "WithIgnores" -> [t EXCEPT !.Ignores = opt.ignores]

\* opt(trimmer)
applyOption(t, opt) ==
  CASE opt.op = "WithArrLimit" -> [t EXCEPT !.ArrLimit = opt.limit]
    [] opt.op = "WithStrLimit" -> [t EXCEPT !.StrLimit = opt.limit]
    [] opt.op = "WithDeepLimit" -> [t EXCEPT !.DeepLimit = opt.limit]
    [] opt.op = "WithWholeLimit" -> [t EXCEPT !.WholeLimit = opt.limit]
    [] opt.op = "WithIgnores" -> [t EXCEPT !.Ignores = opt.ignores]

\* for _, opt := range opts { opt(trimmer) }: the trimmer after the loop, or
\* the text of the panic that ended it
RECURSIVE applyOptions(_, _, _)
applyOptions(t, opts, i) ==
  IF i > Len(opts) THEN [panicked |-> FALSE, trimmer |-> t, text |-> <<>>]
  ELSE IF opts[i].op = "nil"
       THEN [panicked |-> TRUE, trimmer |-> t, text |-> NilDerefText]
  ELSE IF opts[i].op = "panic"
       THEN [panicked |-> TRUE, trimmer |-> t, text |-> opts[i].text]
  ELSE applyOptions(applyOption(t, opts[i]), opts, i + 1)

\* What a call of TrimObjectWithOpts comes to: the value it returns (the
\* deferred recover turns a panic into a string), or the stack overflow or the
\* endless loop that ends it without a return.
TrimObjectWithOpts(h, o, options) ==
  LET a == applyOptions(ObjectTrimmer, options, 1) IN
  IF a.panicked
  THEN [trimmer |-> a.trimmer, panicked |-> TRUE,
        ret |-> StrR(PanicPrefix \o a.text)]
  ELSE [trimmer |-> a.trimmer, panicked |-> FALSE,
        ret |-> trimObjectWithIgnores(h, o, a.trimmer.ArrLimit, a.trimmer.StrLimit,
                                      a.trimmer.DeepLimit, a.trimmer.Ignores)]

TrimObject(h, o) == TrimObjectWithOpts(h, o, <<>>)

(***************************************************************************)
(* json.Marshal of a trimmed value, as JsonObjectWithOpts calls it: the    *)
(* text, or an error for a value encoding/json has no encoding for.        *)
(***************************************************************************)
\* the characters of the strings and keys, in the order of their bytes
Ascii ==
  <<" ", ",", "-", ".", "0", "1", "2", "3", "4", "5", "6", "7", "8", "9", ":", "<",
    ">", "A", "B", "C", "D", "E", "F", "G", "H", "I", "J", "K", "L", "M", "N", "O",
    "P", "Q", "R", "S", "T", "U", "V", "W", "X", "Y", "Z", "_", "a", "b", "c", "d",
    "e", "f", "g", "h", "i", "j", "k", "l", "m", "n", "o", "p", "q", "r", "s", "t",
    "u", "v", "w", "x", "y", "z">>
Code(c) == CHOOSE i \in 1..Len(Ascii) : Ascii[i] = c

\* s sorts before t, as encoding/json sorts the keys of a map
RECURSIVE KeyLess(_, _)
KeyLess(s, t) ==
  IF t = <<>> THEN FALSE
  ELSE IF s = <<>> THEN TRUE
  ELSE IF s[1] # t[1] THEN Code(s[1]) < Code(t[1])
  ELSE KeyLess(Tail(s), Tail(t))

\* the keys of S in the order encoding/json writes them
RECURSIVE SortedKeys(_)
SortedKeys(S) ==
  IF S = {} THEN <<>>
  ELSE LET k == CHOOSE x \in S : \A y \in S \ {x} : KeyLess(x, y)
       IN <<k>> \o SortedKeys(S \ {k})

\* strconv.Itoa
RECURSIVE Itoa(_)
Itoa(n) ==
  IF n < 0 THEN <<"-">> \o Itoa(-n)
  ELSE IF n < 10 THEN <<Ascii[n + 5]>>
  ELSE Itoa(n \div 10) \o <<Ascii[(n % 10) + 5]>>

\* a character inside a JSON string: encoding/json escapes <, > and &
EscapeChar(c) ==
  CASE c = "<" -> <<"\\", "u", "0", "0", "3", "c">>
    [] c = ">" -> <<"\\", "u", "0", "0", "3", "e">>
    [] OTHER -> <<c>>

RECURSIVE Escape(_)
Escape(s) == IF s = <<>> THEN <<>> ELSE EscapeChar(s[1]) \o Escape(Tail(s))

Quote(s) == <<"\"">> \o Escape(s) \o <<"\"">>

JsonErr == [ok |-> FALSE, text |-> <<>>]
JsonOk(text) == [ok |-> TRUE, text |-> text]

\* one more member after the text so far, acc: an error stays an error
JoinMember(acc, first, j) ==
  IF ~acc.ok \/ ~j.ok THEN JsonErr
  ELSE JsonOk(acc.text \o (IF first THEN <<>> ELSE <<",">>) \o j.text)

\* a key before the text of its value
Keyed(k, j) == IF j.ok THEN JsonOk(Quote(k) \o <<":">> \o j.text) ELSE JsonErr

\* the text so far between its brackets
Close(open, acc, close) ==
  IF acc.ok THEN JsonOk(<<open>> \o acc.text \o <<close>>) ELSE JsonErr

RECURSIVE Marshal(_)
RECURSIVE marshalMap(_, _, _, _)
RECURSIVE marshalSeq(_, _, _)

marshalMap(r, keys, i, acc) ==
  IF i > Len(keys) THEN acc
  ELSE marshalMap(r, keys, i + 1,
                  JoinMember(acc, i = 1, Keyed(keys[i], Marshal(r.v[keys[i]]))))

marshalSeq(r, i, acc) ==
  IF i > Len(r.v) THEN acc
  ELSE marshalSeq(r, i + 1, JoinMember(acc, i = 1, Marshal(r.v[i])))

Marshal(r) ==
  CASE r.t = "nil" -> JsonOk(<<"n", "u", "l", "l">>)
    [] r.t = "bool" -> JsonOk(IF r.v THEN <<"t", "r", "u", "e">>
                                      ELSE <<"f", "a", "l", "s", "e">>)
    [] r.t \in {"int64", "uint64", "int", "float64"} -> JsonOk(Itoa(r.v))
    [] r.t = "complex128" -> JsonErr
    [] r.t = "string" -> JsonOk(Quote(r.v))
    [] r.t = "map" ->
         Close("{", marshalMap(r, SortedKeys(DOMAIN r.v), 1, JsonOk(<<>>)), "}")
    [] r.t = "seq" ->
         IF Len(r.v) = 0 THEN JsonOk(<<"n", "u", "l", "l">>)
         ELSE Close("[", marshalSeq(r, 1, JsonOk(<<>>)), "]")

\* the string JsonObjectWithOpts returns for what json.Marshal gave
jsonString(j) == IF j.ok THEN j.text ELSE <<>>

\* JsonObjectWithOpts around a call c of TrimObjectWithOpts, with the text
\* null for a value that has no encoding
jsonOfNullOnError(c) ==
  IF IsAbort(c.ret) THEN c
  ELSE [c EXCEPT !.ret = StrR(IF Marshal(c.ret).ok THEN Marshal(c.ret).text
                                ELSE <<"n", "u", "l", "l">>)]

\* JsonObjectWithOpts around a call c of TrimObjectWithOpts
jsonOf(c) ==
  IF IsAbort(c.ret) THEN c
  ELSE [c EXCEPT !.ret = StrR(jsonString(Marshal(c.ret)))]

JsonObjectWithOpts(h, o, options) == jsonOf(TrimObjectWithOpts(h, o, options))

(***************************************************************************)
(* Go values.                                                              *)
(***************************************************************************)
Chars == <<"a", "b", "c", "d", "e", "f", "g", "h">>
Str(n) == SubSeq(Chars, 1, n)

BoolV(b) == [kind |-> "Bool", typ |-> "bool", val |-> b]
IntV(n) == [kind |-> "Int", typ |-> "int", val |-> n]
ComplexV(n) == [kind |-> "Complex128", typ |-> "complex128", val |-> n]
StrV(s) == [kind |-> "String", typ |-> "string", val |-> s]
\* a value of a defined string type, such as TrafficTyp
NamedStrV(s) == [kind |-> "String", typ |-> "TrafficTyp", val |-> s]
DurV(d) == [kind |-> "Int64", typ |-> "time.Duration", val |-> d]
ChanV == [kind |-> "Chan", typ |-> "chan int"]
FuncV == [kind |-> "Func", typ |-> "func()"]
PtrV(x) == [kind |-> "Ptr", typ |-> "*T", elem |-> x]
NilPtrV == PtrV(NilV)
IfaceV(x) == [kind |-> "Interface", typ |-> "interface {}", dyn |-> x]
NilIfaceV == IfaceV(NilV)
FieldOf(name, tag, val) == [name |-> name, tag |-> tag, val |-> val]
StructV(fields) == [kind |-> "Struct", typ |-> "struct", fields |-> fields]
StrKey(s) == [kind |-> "String", val |-> s]
IntKey(n) == [kind |-> "Int", val |-> n]
Entry(key, val) == [key |-> key, val |-> val]
MapV(entries) == [kind |-> "Map", typ |-> "map", entries |-> entries]
SliceV(elems) == [kind |-> "Slice", typ |-> "slice", elems |-> elems]
ArrayV(elems) == [kind |-> "Array", typ |-> "array", elems |-> elems]
AliasV(a) == [kind |-> "Alias", addr |-> a]
\* time.Time: a struct of three unexported fields
TimeV(t) ==
  [kind |-> "Struct", typ |-> "time.Time", val |-> t,
   fields |-> <<FieldOf(<<"w", "a", "l", "l">>, <<>>, IntV(0)),
                FieldOf(<<"e", "x", "t">>, <<>>, IntV(t)),
                FieldOf(<<"l", "o", "c">>, <<>>, NilPtrV)>>]
\* errors.New(msg): a pointer to a struct of one unexported field
ErrV(msg) ==
  [kind |-> "Ptr", typ |-> "*errors.errorString",
   elem |-> [kind |-> "Struct", typ |-> "errors.errorString",
             fields |-> <<FieldOf(<<"s">>, <<>>, StrV(msg))>>]]

\* fmt.Errorf("...%w", err): a pointer to a struct of two unexported fields
WrapErrV(msg) ==
  [kind |-> "Ptr", typ |-> "*fmt.wrapError",
   elem |-> [kind |-> "Struct", typ |-> "fmt.wrapError",
             fields |-> <<FieldOf(<<"m", "s", "g">>, <<>>, StrV(msg)),
                          FieldOf(<<"e", "r", "r">>, <<>>, IfaceV(ErrV(msg)))>>]]
\* an error of a struct type with an exported field, such as
\* type CodeErr struct{ Code int } with an Error method
CodeErrV(code) ==
  [kind |-> "Struct", typ |-> "CodeErr",
   fields |-> <<FieldOf(<<"C", "o", "d", "e">>, <<>>, IntV(code))>>]
\* the types of the values above that implement the error interface
ErrorTypes == {"*errors.errorString", "*fmt.wrapError", "CodeErr"}

(***************************************************************************)
(* The calls checked: a function of the API with its arguments.  The       *)
(* values given to the trimmer are chains of containers around a leaf,     *)
(* slices of every mix of kept and dropped elements, structs and maps of   *)
(* every mix of names, tags and ignore lists, every kind of string, values *)
(* that reach themselves, and every short list of options.                 *)
(***************************************************************************)
Call(f, h, o, options, s, l) ==
  [fn |-> f, heap |-> h, obj |-> o, opts |-> options, str |-> s, limit |-> l]
Trim(h, o, options) == Call("TrimObjectWithOpts", h, o, options, <<>>, 0)

SeqsUpTo(S, n) == UNION {[1..k -> S] : k \in 0..n}
Copies(c, k) == [i \in 1..k |-> c]

nA == <<"A">>
nB == <<"B">>
na == <<"a">>
nb == <<"b">>
nk == <<"k">>
Ints3 == SliceV(<<IntV(1), IntV(2), IntV(3)>>)
OneField(c) == StructV(<<FieldOf(nA, <<>>, c)>>)
OneEntry(c) == MapV(<<Entry(StrKey(na), c)>>)

\* chains
ChainLeaves == {IntV(7)}
Wrap(S) ==
  {OneField(c) : c \in S} \cup {OneField(IfaceV(c)) : c \in S}
    \cup {OneEntry(c) : c \in S} \cup {OneEntry(IfaceV(c)) : c \in S}
    \cup {SliceV(<<c, c>>) : c \in S} \cup {SliceV(<<IfaceV(c), IfaceV(c)>>) : c \in S}
    \cup {PtrV(c) : c \in S}
RECURSIVE Chains(_)
Chains(k) == IF k = 0 THEN ChainLeaves ELSE LET S == Chains(k - 1) IN S \cup Wrap(S)
ChainCalls ==
  {Trim(<<>>, o, <<WithDeepLimit(d), WithArrLimit(a)>>) :
     o \in Chains(MaxNest) \cup {TimeV(0), PtrV(TimeV(0)), OneField(TimeV(0)), StructV(<<>>)},
     d \in (-1)..MaxDeepLmt, a \in {MaxArrLmt}}

\* slices
IfaceElems ==
  {NilIfaceV, IfaceV(IntV(7)), IfaceV(NilPtrV), IfaceV(SliceV(<<IntV(7)>>)),
   IfaceV(OneField(IntV(7)))}
PtrElems == {NilPtrV, PtrV(IntV(7))}
SameElems ==
  {IntV(7), StrV(Str(MaxStrLen)), SliceV(<<IntV(7)>>), ChanV, FuncV, OneField(IntV(7)),
   OneEntry(IntV(7)), PtrV(PtrV(IntV(7))), PtrV(SliceV(<<IntV(7)>>)),
   PtrV(OneField(IntV(7))), PtrV(IfaceV(IntV(7))), PtrV(NilIfaceV), TimeV(0),
   ErrV(Str(MaxStrLen)), DurV(1)}
ElemLists ==
  SeqsUpTo(IfaceElems, MaxSliceLen) \cup SeqsUpTo(PtrElems, MaxSliceLen)
    \cup {Copies(c, k) : c \in SameElems, k \in 1..MaxSliceLen}
Slices == {SliceV(q) : q \in ElemLists} \cup {ArrayV(Copies(IntV(7), MaxSliceLen))}
SliceCalls ==
  {Trim(<<>>, o, <<WithArrLimit(a)>>) : o \in Slices, a \in (-1)..MaxArrLmt}
    \cup {Trim(<<>>, StructV(<<FieldOf(nA, tag, o)>>), <<WithArrLimit(a)>>) :
            o \in Slices, tag \in {<<>>, nk}, a \in 0..MaxArrLmt}
    \cup {Trim(<<>>, StructV(<<FieldOf(nA, <<>>, PtrV(Ints3))>>),
               <<WithArrLimit(a), WithDeepLimit(d)>>) :
            a \in 0..MaxArrLmt, d \in 0..MaxDeepLmt}

\* names, tags and ignore lists
FirstTags ==
  {<<>>, <<"-">>, nk, <<"k", ",", "o">>, <<",", "o">>, ProtoPrefix \o nk}
FirstVals ==
  {IntV(7), Ints3, SliceV(<<NilPtrV, NilPtrV, NilPtrV>>), OneField(IntV(7)),
   StructV(<<>>), IfaceV(StructV(<<>>)), NilIfaceV, MapV(<<>>)}
SecondTags == {<<>>, nk, nA, SizePrefix \o nk, SizePrefix \o nA}
SecondVals == {IntV(9), SliceV(<<IntV(1), IntV(2)>>)}
IgnoreLists ==
  {<<>>, <<nA>>, <<nk>>, <<SizePrefix \o nA>>, <<SizePrefix \o nk>>, <<nA, nB>>}
TwoFields ==
  UNION {{StructV(<<f1, f2>>), StructV(<<f2, f1>>)} :
           f1 \in {FieldOf(nA, t, x) : t \in FirstTags, x \in FirstVals}
                   \cup {FieldOf(na, t, x) : t \in {<<>>, nk}, x \in {IntV(7), Ints3}},
           f2 \in {FieldOf(nB, t, x) : t \in SecondTags, x \in SecondVals}}
NameCalls ==
  {Trim(<<>>, o, <<WithArrLimit(MaxArrLmt), WithIgnores(g)>>) :
     o \in TwoFields, g \in IgnoreLists}

\* maps
MapKeys ==
  {StrKey(na), StrKey(nb), StrKey(ProtoPrefix \o na), StrKey(SizePrefix \o na),
   IntKey(1), IntKey(2)}
\* two keys of one map: different, and of one type
KeyPairs == {p \in MapKeys \X MapKeys : p[1] # p[2] /\ p[1].kind = p[2].kind}
IfaceVals == {NilIfaceV, IfaceV(IntV(7)), IfaceV(Ints3), IfaceV(StructV(<<>>)), IfaceV(NilPtrV)}
SameVals == {IntV(7), Ints3, OneField(IntV(7)), NilPtrV, ChanV}
Maps ==
  {MapV(<<>>)}
    \cup {MapV(<<Entry(k1, x1)>>) : k1 \in MapKeys, x1 \in IfaceVals \cup SameVals}
    \cup {MapV(<<Entry(p[1], x1), Entry(p[2], x2)>>) :
            p \in KeyPairs, x1 \in IfaceVals, x2 \in IfaceVals}
    \cup {MapV(<<Entry(p[1], x), Entry(p[2], x)>>) : p \in KeyPairs, x \in SameVals}
MapCalls ==
  {Trim(<<>>, o, <<WithArrLimit(MaxArrLmt), WithIgnores(g)>>) :
     o \in Maps, g \in {<<>>, <<na>>, <<nb>>, <<SizePrefix \o na>>}}

\* strings, and the values formatted as strings
StringLeaves ==
  UNION {{StrV(Str(n)), NamedStrV(Str(n)), PtrV(StrV(Str(n))), ErrV(Str(n)),
          PtrV(NamedStrV(Str(n)))} : n \in 0..MaxStrLen}
    \cup {TimeV(0), TimeV(1), DurV(0), DurV(1), DurV(1000000000), DurV(2000000000),
          PtrV(DurV(1)), PtrV(TimeV(0)), PtrV(ErrV(Str(MaxStrLen)))}
Placed(c) ==
  {c, OneField(c), OneField(IfaceV(c)), OneEntry(c), OneEntry(IfaceV(c)),
   SliceV(<<c>>), SliceV(<<IfaceV(c)>>)}
StringCalls ==
  {Trim(<<>>, o, <<WithStrLimit(l)>>) :
     o \in UNION {Placed(c) : c \in StringLeaves}, l \in (-1)..MaxStrLmt}

\* values that reach themselves: s[0] = s of a []any, m["a"] = m of a
\* map[string]any, t.Next = &t, p = &p of a type P *P, x = &x of an any, and a
\* struct whose slice holds a pointer to it
CyclicHeaps ==
  {<<SliceV(<<IfaceV(AliasV(1))>>)>>,
   <<SliceV(<<IfaceV(IntV(7)), IfaceV(AliasV(1))>>)>>,
   <<MapV(<<Entry(StrKey(na), IfaceV(AliasV(1)))>>)>>,
   <<StructV(<<FieldOf(nA, <<>>, IntV(7)), FieldOf(nB, <<>>, PtrV(AliasV(1)))>>)>>,
   <<PtrV(AliasV(1))>>,
   <<IfaceV(PtrV(AliasV(1)))>>,
   <<StructV(<<FieldOf(nA, <<>>, SliceV(<<PtrV(AliasV(1))>>))>>)>>,
   <<StructV(<<FieldOf(nA, <<>>, IfaceV(AliasV(1)))>>)>>}
CyclicRoots(h) ==
  IF h[1].kind = "Interface" THEN {PtrV(AliasV(1))}
  ELSE {h[1], PtrV(AliasV(1)), OneField(h[1]), SliceV(<<IfaceV(h[1])>>)}
CyclicCalls ==
  UNION {{Trim(h, o, <<WithDeepLimit(d), WithArrLimit(a)>>) :
            o \in CyclicRoots(h), d \in (-1)..MaxDeepLmt, a \in 1..MaxArrLmt}
           \cup {Trim(h, o, <<>>) : o \in CyclicRoots(h)} : h \in CyclicHeaps}

\* option lists
Options ==
  {WithArrLimit(1), WithArrLimit(MaxArrLmt), WithStrLimit(MaxStrLmt), WithDeepLimit(1),
   WithDeepLimit(MaxDeepLmt), WithWholeLimit(1), WithIgnores(<<nA>>),
   WithIgnores(<<nB>>), NilOption, PanicOption(Str(MaxStrLen))}
OptionObjs ==
  {StructV(<<FieldOf(nA, <<>>, SliceV(Copies(StrV(Str(MaxStrLen)), MaxSliceLen))),
             FieldOf(nB, <<>>, OneField(OneField(IntV(7))))>>),
   NilV, IntV(7)}
OptionCalls == {Trim(<<>>, o, q) : o \in OptionObjs, q \in SeqsUpTo(Options, MaxOpts)}

\* errors of every type, and the values trimObject has nothing to return for
ShapeObjs ==
  {ErrV(Str(MaxStrLen)), WrapErrV(Str(MaxStrLen)), CodeErrV(7), NilV, NilPtrV, ChanV,
   FuncV, PtrV(ChanV), PtrV(PtrV(ChanV))}
ShapeCalls ==
  {Trim(<<>>, o, q) :
     o \in ShapeObjs \cup {OneField(IfaceV(x)) : x \in ShapeObjs}
            \cup {SliceV(<<IfaceV(x)>>) : x \in ShapeObjs},
     q \in {<<>>} \cup {<<WithDeepLimit(d)>> : d \in 0..MaxDeepLmt}}

\* pointers to pointers, two and three levels, to structs, maps and sequences
PointerObjs ==
  {OneField(IntV(7)), OneField(Ints3), TimeV(0), ErrV(Str(1)).elem, CodeErrV(7),
   StructV(<<>>), OneEntry(IntV(7)), MapV(<<>>), Ints3, SliceV(<<>>),
   ArrayV(<<IntV(1), IntV(2)>>)}
PointerCalls ==
  {Trim(<<>>, o, q) :
     o \in {PtrV(PtrV(x)) : x \in PointerObjs}
            \cup {PtrV(PtrV(PtrV(x))) : x \in PointerObjs}
            \cup {PtrV(ErrV(Str(1))), PtrV(NilPtrV), PtrV(PtrV(NilPtrV))},
     q \in {<<>>, <<WithArrLimit(1)>>} \cup {<<WithDeepLimit(d)>> : d \in 0..1}}

\* the values the classifiers recognise, with budgets of depth down to none
ScalarObjs ==
  {BoolV(TRUE), IntV(7), [kind |-> "Uint8", typ |-> "uint8", val |-> 3],
   [kind |-> "Float64", typ |-> "float64", val |-> 2], ComplexV(1), StrV(Str(MaxStrLen)),
   NamedStrV(Str(2)), ErrV(Str(MaxStrLen)), TimeV(0), DurV(1)}
ScalarCalls ==
  {Trim(<<>>, o, <<WithDeepLimit(d), WithStrLimit(s)>>) :
     o \in ScalarObjs \cup {PtrV(x) : x \in ScalarObjs},
     d \in (-1)..1, s \in {0, MaxStrLmt}}

TrimCalls ==
  ScalarCalls \cup ChainCalls \cup SliceCalls \cup NameCalls \cup MapCalls \cup StringCalls
    \cup CyclicCalls \cup OptionCalls \cup ShapeCalls \cup PointerCalls

\* TrimObject(obj) on the slices, the strings, the values that reach
\* themselves and the values the option lists go with
TrimObjectCalls ==
  {Call("TrimObject", c.heap, c.obj, <<>>, <<>>, 0) :
     c \in {Trim(<<>>, o, <<>>) : o \in Slices} \cup StringCalls \cup CyclicCalls
            \cup OptionCalls}

\* StringLimit(s, limit) on every string of two letters
StringLimitCalls ==
  {Call("StringLimit", <<>>, NilV, <<>>, s, l) :
     s \in SeqsUpTo({"a", "b"}, MaxStrLen), l \in (-1)..(MaxStrLen + 1)}

\* JsonObjectWithOpts on values with and without a complex number in them
JsonLeaves ==
  {ComplexV(1), PtrV(ComplexV(1)), IntV(7), IntV(-12), BoolV(TRUE), BoolV(FALSE),
   StrV(Str(2)), NilPtrV, TimeV(0), ChanV}
JsonObjs ==
  UNION {Placed(c) : c \in JsonLeaves} \cup OptionObjs
    \cup {SliceV(<<>>), OneField(SliceV(<<>>)), OneEntry(SliceV(<<>>)),
          StructV(<<>>), MapV(<<>>)}
    \cup {MapV(<<Entry(p[1], IntV(7)), Entry(p[2], c)>>) :
            p \in KeyPairs, c \in {IntV(9), ComplexV(1)}}
    \cup {StructV(<<FieldOf(nB, t, Ints3), FieldOf(nA, <<>>, c)>>) :
            t \in {<<>>, nk}, c \in {IntV(9), ComplexV(1)}}
JsonCalls ==
  {Call("JsonObjectWithOpts", <<>>, o, q, <<>>, 0) :
     o \in JsonObjs,
     q \in {<<>>, <<WithArrLimit(1)>>, <<WithDeepLimit(1)>>, <<NilOption>>}}
    \cup UNION {{Call("JsonObjectWithOpts", h, o, <<>>, <<>>, 0) :
                   o \in CyclicRoots(h)} : h \in CyclicHeaps}

Calls == TrimCalls \cup TrimObjectCalls \cup StringLimitCalls \cup JsonCalls

(***************************************************************************)
(* The state: the call made, where it stands, and what it came to.         *)
(***************************************************************************)
VARIABLES
  fn,        \* the function called
  heap,      \* the cells the argument reaches itself through
  obj,       \* the value given to the trimmer
  opts,      \* the options given to TrimObjectWithOpts
  str,       \* the string given to StringLimit
  limit,     \* the limit given to StringLimit
  phase,     \* ready, done (returned), fatal (stack overflow), spin (endless loop)
  trimmer,   \* the ObjectTrimmer of the call, after its options
  panicked,  \* whether the deferred recover caught a panic
  ret,       \* the value returned
  tick,      \* the parity of the iterations of a loop that never exits
  cells,     \* the ObjectTrimmers allocated by the calls running side by side
  gos,       \* the calls running side by side: arguments, position, locals, result
  l,         \* the local cache: its map, its clock function, its lock
  now,       \* the time time.Now gives
  frames     \* the calls on the cache: operation, position, locals, result

vars == <<fn, heap, obj, opts, str, limit, phase, trimmer, panicked, ret, tick,
          cells, gos, l, now, frames>>
args == <<fn, heap, obj, opts, str, limit>>
goVars == <<cells, gos>>
cacheVars == <<l, now, frames>>

\* no calls side by side
NoGos == cells = <<>> /\ gos = <<>>
\* no cache
NoCache == l = [made |-> FALSE] /\ now = 0 /\ frames = <<>>

Init ==
  /\ \E c \in Calls :
       /\ fn = c.fn
       /\ heap = c.heap
       /\ obj = c.obj
       /\ opts = c.opts
       /\ str = c.str
       /\ limit = c.limit
  /\ phase = "ready"
  /\ trimmer = ObjectTrimmer
  /\ panicked = FALSE
  /\ ret = NilR
  /\ tick = 0
  /\ NoGos
  /\ NoCache

\* the call ends: with a return, or without one
Ends(c) ==
  /\ trimmer' = c.trimmer
  /\ panicked' = c.panicked
  /\ phase' = IF c.ret = Overflow THEN "fatal"
              ELSE IF c.ret = Hang THEN "spin"
              ELSE "done"
  /\ ret' = IF IsAbort(c.ret) THEN NilR ELSE c.ret
  /\ UNCHANGED <<args, tick, goVars, cacheVars>>

TrimObjectWithOptsCall ==
  /\ phase = "ready"
  /\ fn = "TrimObjectWithOpts"
  /\ Ends(TrimObjectWithOpts(heap, obj, opts))

TrimObjectCall ==
  /\ phase = "ready"
  /\ fn = "TrimObject"
  /\ Ends(TrimObject(heap, obj))

JsonObjectWithOptsCall ==
  /\ phase = "ready"
  /\ fn = "JsonObjectWithOpts"
  /\ Ends(JsonObjectWithOpts(heap, obj, opts))

StringLimitCall ==
  /\ phase = "ready"
  /\ fn = "StringLimit"
  /\ ret' = StrR(StringLimit(str, limit))
  /\ phase' = "done"
  /\ UNCHANGED <<args, trimmer, panicked, tick, goVars, cacheVars>>

\* one more iteration of for v.Kind() == reflect.Ptr { v = v.Elem() }
PtrLoopSpins ==
  /\ phase = "spin"
  /\ tick' = 1 - tick
  /\ UNCHANGED <<args, phase, trimmer, panicked, ret, goVars, cacheVars>>

Next ==
  \/ TrimObjectWithOptsCall
  \/ TrimObjectCall
  \/ JsonObjectWithOptsCall
  \/ StringLimitCall
  \/ PtrLoopSpins

Spec == Init /\ [][Next]_vars

\* a call that can take a step takes it
FairSpec == Spec /\ WF_vars(Next)

(***************************************************************************)
(* Calls of TrimObjectWithOpts side by side: each goroutine runs the body  *)
(* of the function a statement at a time, and the statements of the calls  *)
(* interleave.  The traversal reads the argument and the limits it was     *)
(* given by value; nothing in it writes to either.                         *)
(***************************************************************************)
Goroutines == {1, 2}
trimVars == <<fn, heap, obj, opts, str, limit, phase, trimmer, panicked, ret, tick>>

\* no sequential call
NoCall ==
  /\ fn = "none" /\ heap = <<>> /\ obj = NilV /\ opts = <<>> /\ str = <<>>
  /\ limit = 0 /\ phase = "idle" /\ trimmer = ObjectTrimmer
  /\ panicked = FALSE /\ ret = NilR /\ tick = 0

\* the arguments of the calls made side by side
GoObjs == OptionObjs \cup {OneField(Ints3)}
GoOptions ==
  {<<>>, <<WithArrLimit(1)>>, <<WithDeepLimit(1)>>, <<WithStrLimit(MaxStrLmt)>>,
   <<WithIgnores(<<nA>>)>>, <<WithArrLimit(1), WithIgnores(<<nB>>)>>,
   <<WithDeepLimit(1), NilOption>>, <<PanicOption(Str(1)), WithArrLimit(1)>>}
Go(o, options) ==
  [heap |-> <<>>, obj |-> o, opts |-> options, pc |-> "new", trimmer |-> 0,
   i |-> 1, ret |-> NilR]

GoInit ==
  /\ NoCall
  /\ NoCache
  /\ cells = <<>>
  /\ \E o1 \in GoObjs, o2 \in GoObjs, q1 \in GoOptions, q2 \in GoOptions :
       gos = <<Go(o1, q1), Go(o2, q2)>>

\* trimmer := &ObjectTrimmer{...} in a program where the trimmer is one
\* package-level variable that every call resets
newTrimmerShared(cs) ==
  IF cs = <<>> THEN [cells |-> <<ObjectTrimmer>>, addr |-> 1]
  ELSE [cells |-> [cs EXCEPT ![1] = ObjectTrimmer], addr |-> 1]

\* trimmer := &ObjectTrimmer{...}: a cell of the call's own
newTrimmer(cs) == [cells |-> Append(cs, ObjectTrimmer), addr |-> Len(cs) + 1]

\* the call of goroutine g allocates its trimmer
GoNewTrimmer(g) ==
  /\ gos[g].pc = "new"
  /\ cells' = newTrimmer(cells).cells
  /\ gos' = [gos EXCEPT ![g].trimmer = newTrimmer(cells).addr, ![g].pc = "opts"]
  /\ UNCHANGED <<trimVars, cacheVars>>

\* opt(trimmer) for the next option of goroutine g
GoOption(g) ==
  /\ gos[g].pc = "opts"
  /\ gos[g].i <= Len(gos[g].opts)
  /\ gos[g].opts[gos[g].i].op \notin {"nil", "panic"}
  /\ cells' = [cells EXCEPT ![gos[g].trimmer] = applyOption(@, gos[g].opts[gos[g].i])]
  /\ gos' = [gos EXCEPT ![g].i = @ + 1]
  /\ UNCHANGED <<trimVars, cacheVars>>

\* the next option of goroutine g panics, and the deferred recover returns
GoOptionPanics(g) ==
  /\ gos[g].pc = "opts"
  /\ gos[g].i <= Len(gos[g].opts)
  /\ gos[g].opts[gos[g].i].op \in {"nil", "panic"}
  /\ gos' = [gos EXCEPT
               ![g].ret = StrR(PanicPrefix \o applyOptions(ObjectTrimmer,
                                                <<gos[g].opts[gos[g].i]>>, 1).text),
               ![g].pc = "done"]
  /\ UNCHANGED <<cells, trimVars, cacheVars>>

\* the position a call is at after its traversal came to r
goEnd(r) == IF r = Overflow THEN "fatal" ELSE IF r = Hang THEN "spin" ELSE "done"

\* return trimObjectWithIgnores(obj, trimmer.ArrLimit, ...) of goroutine g
GoTrim(g) ==
  /\ gos[g].pc = "opts"
  /\ gos[g].i > Len(gos[g].opts)
  /\ LET t == cells[gos[g].trimmer]
         r == trimObjectWithIgnores(gos[g].heap, gos[g].obj, t.ArrLimit, t.StrLimit,
                                    t.DeepLimit, t.Ignores)
     IN gos' = [gos EXCEPT ![g].ret = IF IsAbort(r) THEN NilR ELSE r,
                           ![g].pc = goEnd(r)]
  /\ UNCHANGED <<cells, trimVars, cacheVars>>

GoNext ==
  \E g \in Goroutines :
    \/ GoNewTrimmer(g)
    \/ GoOption(g)
    \/ GoOptionPanics(g)
    \/ GoTrim(g)

GoSpec == GoInit /\ [][GoNext]_vars

(***************************************************************************)
(* The in-memory cache, local: a map from key to item behind a            *)
(* sync.RWMutex, with the clock it reads the time from.  A call runs a     *)
(* locked section at a time.  Times are in seconds.                        *)
(***************************************************************************)
MaxNow == 4
MaxExpire == 2
MaxCalls == 3
StartNow == 2

Callers == {1}
Keys == {"abc", "k"}
Raws == {"123", "9"}

ErrNotFound == "cache: key not found"
ErrInActive == "cache: inactive"

item(raw, expire) == [isNil |-> FALSE, raw |-> raw, expire |-> expire]
\* a nil *item stored under a key
NilItem == [isNil |-> TRUE, raw |-> "", expire |-> 0]

local(m, nowFunc) ==
  [made |-> TRUE, m |-> m, nowFunc |-> nowFunc, readers |-> {}, writer |-> 0]
NewLocal == local(EmptyFcn, "time.Now")
\* &local{}: no map, no clock
ZeroLocal == [local(EmptyFcn, "nil") EXCEPT !.made = FALSE]
\* &local{m: tt.fields.m, lock: tt.fields.lock} of Test_local_Get: no clock
OneItem(k, it) == [x \in {k} |-> it]
TestLocals ==
  {local(EmptyFcn, "nil"),
   local(OneItem("abc", item("123", StartNow - 1)), "nil"),
   local(OneItem("abc", item("123", StartNow + 1)), "nil"),
   local(OneItem("abc", item("123", 0)), "nil"),
   local(OneItem("abc", NilItem), "nil")}

active(c) == c.made

\* delete(l.m, key)
delete(m, key) == [x \in DOMAIN m \ {key} |-> m[x]]
\* l.m[key] = it
store(m, key, it) == [x \in DOMAIN m \cup {key} |-> IF x = key THEN it ELSE m[x]]

\* l.expireAt(expire), with a clock
expireAt(expire) == IF expire = 0 THEN 0 ELSE now + expire

Idle == [op |-> "none", key |-> "", raw |-> "", expire |-> 0, pc |-> "idle",
         n |-> 0, before |-> EmptyFcn, at |-> 0, val |-> "", err |-> "nil"]

LocalInit ==
  /\ NoCall
  /\ NoGos
  /\ l \in {NewLocal, ZeroLocal} \cup TestLocals
  /\ now = StartNow
  /\ frames = [g \in Callers |-> Idle]

\* the call of g returns val, err
Return(g, val, err) ==
  frames' = [frames EXCEPT ![g].val = val, ![g].err = err, ![g].pc = "done"]

\* the call of g ends in a panic no one recovers
Panic(g) == frames' = [frames EXCEPT ![g].pc = "panic"]

\* a caller calls Get, Set or Del
LocalCall(g) ==
  /\ frames[g].pc \in {"idle", "done"}
  /\ frames[g].n < MaxCalls
  /\ \E op \in {"Get", "Set", "Del"}, k \in Keys, r \in Raws, d \in 0..MaxExpire :
       /\ op # "Set" => r = "123" /\ d = 0
       /\ frames' = [frames EXCEPT ![g] =
                       [op |-> op, key |-> k, raw |-> r, expire |-> d, pc |-> "start",
                        n |-> frames[g].n + 1, before |-> l.m, at |-> now,
                        val |-> "", err |-> "nil"]]
  /\ UNCHANGED <<l, now, trimVars, goVars>>

\* Get up to l.lock.RLock()
GetRLock(g) ==
  /\ frames[g].pc = "start"
  /\ frames[g].op = "Get"
  /\ IF ~active(l)
     THEN Return(g, "", ErrInActive) /\ UNCHANGED l
     ELSE /\ l.writer = 0
          /\ l' = [l EXCEPT !.readers = @ \cup {g}]
          /\ frames' = [frames EXCEPT ![g].pc = "rlocked"]
  /\ UNCHANGED <<now, trimVars, goVars>>

\* whether the entry it is still good at the time now
live(it) == it.expire = 0 \/ now < it.expire

\* Get under the read lock: the lookup and what it decides
GetRead(g) ==
  /\ frames[g].pc = "rlocked"
  /\ LET key == frames[g].key
         unlocked == [l EXCEPT !.readers = @ \ {g}]
     IN IF key \notin DOMAIN l.m
        THEN Return(g, "", ErrNotFound) /\ l' = unlocked
        ELSE IF l.m[key].isNil
        THEN /\ frames' = [frames EXCEPT ![g].pc = "expired", ![g].at = now]
             /\ l' = unlocked
        ELSE IF l.m[key].expire # 0 /\ l.nowFunc = "nil"
        THEN Panic(g) /\ UNCHANGED l
        ELSE IF live(l.m[key])
        THEN /\ frames' = [frames EXCEPT ![g].val = l.m[key].raw, ![g].err = "nil",
                                          ![g].pc = "done", ![g].at = now]
             /\ l' = unlocked
        ELSE /\ frames' = [frames EXCEPT ![g].pc = "expired", ![g].at = now]
             /\ l' = unlocked
  /\ UNCHANGED <<now, trimVars, goVars>>

\* Get under the write lock: delete(l.m, key)
GetDelete(g) ==
  /\ frames[g].pc = "expired"
  /\ l.writer = 0 /\ l.readers = {}
  /\ l' = [l EXCEPT !.m = delete(@, frames[g].key)]
  /\ Return(g, "", ErrNotFound)
  /\ UNCHANGED <<now, trimVars, goVars>>

Set(g) ==
  /\ frames[g].pc = "start"
  /\ frames[g].op = "Set"
  /\ IF ~active(l)
     THEN Return(g, "", ErrInActive) /\ UNCHANGED l
     ELSE /\ l.writer = 0 /\ l.readers = {}
          /\ IF frames[g].expire # 0 /\ l.nowFunc = "nil"
             THEN Panic(g) /\ UNCHANGED l
             ELSE /\ l' = [l EXCEPT !.m = store(@, frames[g].key,
                                     item(frames[g].raw, expireAt(frames[g].expire)))]
                  /\ Return(g, "", "nil")
  /\ UNCHANGED <<now, trimVars, goVars>>

Del(g) ==
  /\ frames[g].pc = "start"
  /\ frames[g].op = "Del"
  /\ IF ~active(l)
     THEN Return(g, "", ErrInActive) /\ UNCHANGED l
     ELSE /\ l.writer = 0 /\ l.readers = {}
          /\ l' = [l EXCEPT !.m = delete(@, frames[g].key)]
          /\ Return(g, "", "nil")
  /\ UNCHANGED <<now, trimVars, goVars>>

\* a second passes
Tick ==
  /\ now < MaxNow
  /\ now' = now + 1
  /\ UNCHANGED <<l, frames, trimVars, goVars>>

LocalNext ==
  \/ \E g \in Callers :
       \/ LocalCall(g)
       \/ GetRLock(g)
       \/ GetRead(g)
       \/ GetDelete(g)
       \/ Set(g)
       \/ Del(g)
  \/ Tick

LocalSpec == LocalInit /\ [][LocalNext]_vars

(***************************************************************************)
(* Two goroutines calling Get, Set, SetNx, Del and Expire on one cache.    *)
(***************************************************************************)
ConcCallers == {1, 2}
\* the goroutines call with one key
ConcKeys == {"k"}

ConcInit ==
  /\ NoCall
  /\ NoGos
  /\ l \in {NewLocal, ZeroLocal}
  /\ now = StartNow
  /\ frames = [g \in ConcCallers |-> Idle]

\* a caller calls Get, Set, SetNx, Del or Expire
ConcCall(g) ==
  /\ frames[g].pc \in {"idle", "done"}
  /\ frames[g].n < MaxCalls
  /\ \E op \in {"Get", "Set", "SetNx", "Del", "Expire"}, k \in ConcKeys, r \in Raws,
        d \in 0..MaxExpire :
       /\ op \notin {"Set", "SetNx"} => r = "123"
       /\ op \notin {"Set", "SetNx", "Expire"} => d = 0
       /\ frames' = [frames EXCEPT ![g] =
                       [op |-> op, key |-> k, raw |-> r, expire |-> d, pc |-> "start",
                        n |-> frames[g].n + 1, before |-> EmptyFcn, at |-> 0,
                        val |-> "", err |-> "nil"]]
  /\ UNCHANGED <<l, now, trimVars, goVars>>

SetNx(g) ==
  /\ frames[g].pc = "start"
  /\ frames[g].op = "SetNx"
  /\ IF ~active(l)
     THEN Return(g, "false", ErrInActive) /\ UNCHANGED l
     ELSE /\ l.writer = 0 /\ l.readers = {}
          /\ IF frames[g].key \in DOMAIN l.m
             THEN Return(g, "true", "nil") /\ UNCHANGED l
             ELSE IF frames[g].expire # 0 /\ l.nowFunc = "nil"
             THEN Panic(g) /\ UNCHANGED l
             ELSE /\ l' = [l EXCEPT !.m = store(@, frames[g].key,
                                     item(frames[g].raw, expireAt(frames[g].expire)))]
                  /\ Return(g, "false", "nil")
  /\ UNCHANGED <<now, trimVars, goVars>>

Expire(g) ==
  /\ frames[g].pc = "start"
  /\ frames[g].op = "Expire"
  /\ IF ~active(l)
     THEN Return(g, "", ErrInActive) /\ UNCHANGED l
     ELSE /\ l.writer = 0 /\ l.readers = {}
          /\ IF frames[g].key \in DOMAIN l.m /\ ~l.m[frames[g].key].isNil
             THEN IF frames[g].expire # 0 /\ l.nowFunc = "nil"
                  THEN Panic(g) /\ UNCHANGED l
                  ELSE /\ l' = [l EXCEPT !.m[frames[g].key].expire =
                                             expireAt(frames[g].expire)]
                       /\ Return(g, "", "nil")
             ELSE Return(g, "", ErrNotFound) /\ UNCHANGED l
  /\ UNCHANGED <<now, trimVars, goVars>>

ConcNext ==
  \/ \E g \in ConcCallers :
       \/ ConcCall(g)
       \/ GetRLock(g)
       \/ GetRead(g)
       \/ GetDelete(g)
       \/ Set(g)
       \/ SetNx(g)
       \/ Del(g)
       \/ Expire(g)
  \/ Tick

ConcSpec == ConcInit /\ [][ConcNext]_vars

(***************************************************************************)
(* LogTrafficEntry.DataWith: the caller hands a payload as tc.Req, DataWith*)
(* copies the fields map, starts a goroutine and returns; the goroutine    *)
(* runs toZapFields, which trims the payload, and writes the record.  obj  *)
(* is the payload the caller holds, as it is now; ret the field written.   *)
(***************************************************************************)
MaxVal == 2
MaxMutations == 2

Shapes == {"pointer", "struct", "map", "slice", "string", "int"}

\* a payload of a shape with the number n in it
Payload(shape, n) ==
  CASE shape = "pointer" -> PtrV(OneField(IntV(n)))
    [] shape = "struct" -> OneField(IntV(n))
    [] shape = "map" -> OneEntry(IntV(n))
    [] shape = "slice" -> SliceV(<<IntV(n)>>)
    [] shape = "string" -> StrV(Str(n))
    [] shape = "int" -> IntV(n)

\* an interface value of these kinds refers to the data the caller holds; of
\* the other kinds it holds a copy
Shared(v) == v.kind \in {"Ptr", "Map", "Slice"}

\* the field toZapFields makes of v: a string or an integer as zap.Any takes
\* it, any other value trimmed
toZapFields(v, ignores) ==
  IF v.kind = "String" /\ v.typ = "string" THEN StrR(v.val)
  ELSE IF v.kind = "Int" /\ v.typ = "int" THEN ScalarR("int64", v.val)
  ELSE TrimObjectWithOpts(<<>>, v, <<WithIgnores(ignores)>>).ret

\* le.validate()
validate(le) == le.dataLogger /\ le.allow

NoLog ==
  [pc |-> "idle", shape |-> "int", req |-> NilV, given |-> NilV, began |-> NilV,
   raced |-> FALSE, n |-> 0]

LogInit ==
  /\ fn = "DataWith" /\ heap = <<>> /\ str = <<>> /\ limit = 0 /\ phase = "idle"
  /\ trimmer = ObjectTrimmer /\ panicked = FALSE /\ ret = NilR /\ tick = 0
  /\ NoGos
  /\ now = 0
  /\ \E shape \in Shapes, n \in 0..MaxVal, ignores \in {<<>>, <<nA>>},
        dataLogger \in BOOLEAN, allow \in BOOLEAN :
       /\ obj = Payload(shape, n)
       /\ opts = <<WithIgnores(ignores)>>
       /\ l = [made |-> FALSE, dataLogger |-> dataLogger, allow |-> allow]
       /\ frames = <<[NoLog EXCEPT !.shape = shape]>>

\* what newFields holds of the payload v: the reference, or a copy
copyFields(v) == IF Shared(v) THEN [kind |-> "Shared"] ELSE v

\* DataWith up to its return: the goroutine is started, nothing is trimmed
DataWith ==
  /\ frames[1].pc = "idle"
  /\ IF ~validate(l)
     THEN frames' = [frames EXCEPT ![1].pc = "off"]
     ELSE frames' = [frames EXCEPT ![1].pc = "started", ![1].req = copyFields(obj),
                                   ![1].given = obj]
  /\ UNCHANGED <<l, now, trimVars, goVars>>

\* the payload the goroutine reads now
payloadRead == IF frames[1].req.kind = "Shared" THEN obj ELSE frames[1].req

\* the caller, DataWith having returned, writes another number into its payload
CallerMutates ==
  /\ frames[1].pc \in {"started", "trimming", "written"}
  /\ frames[1].n < MaxMutations
  /\ \E n \in 0..MaxVal :
       /\ obj' = Payload(frames[1].shape, n)
       /\ obj' # obj
  /\ frames' = [frames EXCEPT
                  ![1].n = @ + 1,
                  ![1].raced = @ \/ (frames[1].pc = "trimming" /\ Shared(obj))]
  /\ UNCHANGED <<fn, heap, opts, str, limit, phase, trimmer, panicked, ret, tick,
                 l, now, goVars>>

\* the goroutine starts toZapFields
LogStarts ==
  /\ frames[1].pc = "started"
  /\ frames' = [frames EXCEPT ![1].pc = "trimming", ![1].began = payloadRead]
  /\ UNCHANGED <<l, now, trimVars, goVars>>

\* the goroutine ends toZapFields and writes the record; a payload written
\* during the traversal was read before the write or after it
LogWrites ==
  /\ frames[1].pc = "trimming"
  /\ \E v \in {payloadRead} \cup (IF frames[1].raced THEN {frames[1].began} ELSE {}) :
       ret' = toZapFields(v, opts[1].ignores)
  /\ frames' = [frames EXCEPT ![1].pc = "written"]
  /\ UNCHANGED <<fn, heap, obj, opts, str, limit, phase, trimmer, panicked, tick,
                 l, now, goVars>>

LogNext ==
  \/ DataWith
  \/ CallerMutates
  \/ LogStarts
  \/ LogWrites

LogSpec == LogInit /\ [][LogNext]_vars

(***************************************************************************)
(* What the properties read off a trimmed value.                           *)
(***************************************************************************)
SetMax(S) == CHOOSE x \in S : \A y \in S : y <= x

\* where the values directly below r sit: the keys of a mapping, the
\* positions of a sequence
Slots(r) ==
  IF r.t = "map" THEN DOMAIN r.v
  ELSE IF r.t = "seq" THEN 1..Len(r.v)
  ELSE {}

\* the most containers, mappings or sequences, a path from r to a leaf goes through
RECURSIVE Depth(_)
Depth(r) ==
  IF r.t \in {"map", "seq"}
  THEN 1 + SetMax({0} \cup {Depth(r.v[k]) : k \in Slots(r)})
  ELSE 0

\* the most mappings a path from r to a leaf goes through
RECURSIVE MapDepth(_)
MapDepth(r) ==
  (IF r.t = "map" THEN 1 ELSE 0)
    + SetMax({0} \cup {MapDepth(r.v[k]) : k \in Slots(r)})

\* the length of the longest string scalar in r, -1 when it has none
RECURSIVE LongestString(_)
LongestString(r) ==
  IF r.t = "string" THEN Len(r.v)
  ELSE SetMax({-1} \cup {LongestString(r.v[k]) : k \in Slots(r)})

\* the length of the longest sequence in r, -1 when it has none
RECURSIVE LongestSeq(_)
LongestSeq(r) ==
  SetMax({IF r.t = "seq" THEN Len(r.v) ELSE -1}
           \cup {LongestSeq(r.v[k]) : k \in Slots(r)})

\* the keys of the mappings in r
RECURSIVE KeysOf(_)
KeysOf(r) ==
  (IF r.t = "map" THEN DOMAIN r.v ELSE {})
    \cup UNION {KeysOf(r.v[k]) : k \in Slots(r)}

\* a call of TrimObjectWithOpts that returned what the traversal gave
Trimmed == fn = "TrimObjectWithOpts" /\ phase = "done" /\ ~panicked

\* the text of the fault the options of the call raise
FaultText == applyOptions(ObjectTrimmer, opts, 1).text

(***************************************************************************)
(* C1: every call of TrimObjectWithOpts returns a value to its caller, and *)
(* when a fault was raised during the call the value returned is the one   *)
(* string "panic recovery: " followed by the fault.                        *)
(***************************************************************************)
C1_ReturnsOrRecovers ==
  fn = "TrimObjectWithOpts" =>
    /\ phase \notin {"fatal", "spin"}
    /\ (phase = "done" /\ panicked => ret = StrR(PanicPrefix \o FaultText))

(***************************************************************************)
(* C2: every call of TrimObjectWithOpts terminates, on values that reach   *)
(* themselves too: no call exhausts the stack, and none stays in a loop.   *)
(***************************************************************************)
C2_Terminates == phase \notin {"fatal", "spin"}

(***************************************************************************)
(* C3, as stated: with a depth limit D >= 0 no path of the result goes     *)
(* through more than D containers, mappings or sequences.                  *)
(***************************************************************************)
C3_DepthWithinLimit ==
  Trimmed /\ trimmer.DeepLimit >= 0 => Depth(ret) <= trimmer.DeepLimit

(***************************************************************************)
(* C3, amended: with a depth limit D >= 0 no path of the result goes       *)
(* through more than max(D, 1) mappings; sequences are not counted.        *)
(***************************************************************************)
C3_MappingDepthWithinLimit ==
  Trimmed /\ trimmer.DeepLimit >= 0 =>
    MapDepth(ret) <= SetMax({trimmer.DeepLimit, 1})

\* a result whose mappings nest as deep as a limit of two or more allows
C3_Witness ==
  Trimmed /\ trimmer.DeepLimit >= 2 /\ MapDepth(ret) = trimmer.DeepLimit

(***************************************************************************)
(* C4: with a string limit L > 0 every string scalar of the result, from a *)
(* string, a pointer to a string, an error, a time or a duration, is at    *)
(* most L long.                                                            *)
(***************************************************************************)
C4_StringsWithinLimit ==
  Trimmed /\ trimmer.StrLimit > 0 => LongestString(ret) <= trimmer.StrLimit

(***************************************************************************)
(* C5: with an array limit A >= 0 every sequence of the result, at every   *)
(* level, has at most A elements.                                          *)
(***************************************************************************)
C5_SequencesWithinLimit ==
  Trimmed /\ trimmer.ArrLimit >= 0 => LongestSeq(ret) <= trimmer.ArrLimit

\* a result below the root of which a sequence was cut down to the limit
C5_Witness ==
  /\ Trimmed
  /\ trimmer.ArrLimit >= 1
  /\ obj.kind = "Struct"
  /\ \E i \in 1..Len(obj.fields) :
       /\ obj.fields[i].val.kind = "Slice"
       /\ Len(obj.fields[i].val.elems) > trimmer.ArrLimit
  /\ LongestSeq(ret) = trimmer.ArrLimit

(***************************************************************************)
(* C6: StringLimit(s, L) is the first L characters of s followed by the    *)
(* ellipsis when L > 0 and s is longer than L, and s itself otherwise.     *)
(***************************************************************************)
C6_StringLimit ==
  fn = "StringLimit" /\ phase = "done" =>
    /\ ret.t = "string"
    /\ IF limit > 0 /\ Len(str) > limit
       THEN /\ Len(ret.v) = limit + Len(Ellipsis)
            /\ \A i \in 1..limit : ret.v[i] = str[i]
            /\ \A i \in 1..Len(Ellipsis) : ret.v[limit + i] = Ellipsis[i]
       ELSE ret.v = str

\* a string longer than a positive limit went through StringLimit
C6_Witness ==
  fn = "StringLimit" /\ phase = "done" /\ limit > 0 /\ Len(str) > limit

\* an element trimSlice appends something for: a bool, a number, a string, a
\* struct, a map or an interface that is not nil, or a pointer to one that is
\* not nil
Kept(e) ==
  /\ ~IsNil(e)
  /\ (IF e.kind = "Ptr" THEN e.elem.kind ELSE e.kind)
       \in {"Bool", "String", "Struct", "Map", "Interface"} \cup IntKinds
             \cup UintKinds \cup FloatKinds \cup ComplexKinds

\* TrimObjectWithOpts was given a slice or an array longer than the array limit
LongSequenceTrimmed ==
  /\ Trimmed
  /\ heap = <<>>
  /\ obj.kind \in {"Slice", "Array"}
  /\ Len(obj.elems) > trimmer.ArrLimit

(***************************************************************************)
(* C7, as stated: trimming a sequence longer than the array limit gives a  *)
(* sequence as long as the array limit, whatever its elements are.         *)
(***************************************************************************)
C7_LengthIsLimit ==
  LongSequenceTrimmed => ret.t = "seq" /\ Len(ret.v) = trimmer.ArrLimit

(***************************************************************************)
(* C7, amended: trimming a sequence longer than an array limit A >= 0      *)
(* gives a sequence with one element for each of the first A elements that *)
(* is kept (a bool, a number, a string, a struct, a map or an interface    *)
(* that is not nil, or a pointer to one): as long as A when all are.       *)
(***************************************************************************)
C7_LengthIsKeptOfFirst ==
  LongSequenceTrimmed /\ trimmer.ArrLimit >= 0 =>
    /\ ret.t = "seq"
    /\ Len(ret.v) = Cardinality({i \in 1..trimmer.ArrLimit : Kept(obj.elems[i])})

\* a sequence cut down to a limit of two, all of its first elements kept
C7_Witness ==
  /\ LongSequenceTrimmed
  /\ trimmer.ArrLimit = MaxArrLmt
  /\ \A i \in 1..trimmer.ArrLimit : Kept(obj.elems[i])
  /\ Len(ret.v) = trimmer.ArrLimit

\* the value a struct field holds, behind its pointer if it is one
SequenceOf(f) ==
  IF f.val.kind = "Ptr" THEN f.val.elem ELSE f.val

\* the fields of the struct given to the call
FieldsGiven == IF obj.kind = "Struct" THEN 1..Len(obj.fields) ELSE {}

\* field i of the struct given holds a sequence longer than the array limit and
\* is emitted: it is exported, not excluded by its tag, and its key is visible
LongSequenceField(i) ==
  /\ Trimmed
  /\ heap = <<>>
  /\ obj.kind = "Struct"
  /\ i \in FieldsGiven
  /\ Exported(obj.fields[i].name)
  /\ obj.fields[i].tag # <<"-">>
  /\ visibleName(fieldName(obj.fields[i]), {trimmer.Ignores[j] : j \in 1..Len(trimmer.Ignores)})
  /\ SequenceOf(obj.fields[i]).kind \in {"Slice", "Array"}
  /\ Len(SequenceOf(obj.fields[i]).elems) > trimmer.ArrLimit

\* the mapping has the key of field i with a sequence, and its size key with
\* the length of the sequence of the field
HasSequenceAndSize(i) ==
  LET k == fieldName(obj.fields[i]) IN
  /\ ret.t = "map"
  /\ k \in DOMAIN ret.v
  /\ ret.v[k].t = "seq"
  /\ Len(ret.v[k].v) <= trimmer.ArrLimit
  /\ (SizePrefix \o k) \in DOMAIN ret.v
  /\ ret.v[SizePrefix \o k] = ScalarR("int", Len(SequenceOf(obj.fields[i]).elems))

NoKeyClash(i) ==
  \A j \in (1..Len(obj.fields)) \ {i} :
    LET k == fieldName(obj.fields[i])
        o == fieldName(obj.fields[j])
    IN o # k /\ o # SizePrefix \o k /\ SizePrefix \o o # k

C9_NoInvisibleKey ==
  Trimmed =>
    \A k \in KeysOf(ret) :
      /\ k \notin {trimmer.Ignores[j] : j \in 1..Len(trimmer.Ignores)}
      /\ ~HasPrefix(k, ProtoPrefix)

(***************************************************************************)
(* C10, as stated: a struct trimmed with a depth limit of 0 gives the      *)
(* empty mapping whatever its fields hold, and no field is looked at.      *)
(***************************************************************************)
C10_StructAtDepthZero ==
  Trimmed /\ trimmer.DeepLimit = 0 /\ obj.kind = "Struct" =>
    ret = MapR(EmptyFcn, 0)

(***************************************************************************)
(* C10, amended: a struct other than a time.Time trimmed with a depth      *)
(* limit of 0 gives the empty mapping whatever its fields hold, and no     *)
(* field is looked at; a time.Time gives its formatted text.               *)
(***************************************************************************)
C10_PlainStructAtDepthZero ==
  Trimmed /\ trimmer.DeepLimit = 0 /\ obj.kind = "Struct" =>
    IF obj.typ = "time.Time"
    THEN ret = StrR(timeFormat(obj.val))
    ELSE ret = MapR(EmptyFcn, 0)

\* a struct with a field that would be emitted, trimmed with a depth limit of 0
C10_Witness ==
  /\ Trimmed
  /\ trimmer.DeepLimit = 0
  /\ obj.kind = "Struct"
  /\ obj.typ # "time.Time"
  /\ Len(obj.fields) >= 1
  /\ obj.fields[1].val = IntV(7)
  /\ ret = MapR(EmptyFcn, 0)

(***************************************************************************)
(* C11: trimming a value whose type implements error gives its message as  *)
(* a plain string, never a mapping, whatever the concrete type is.         *)
(***************************************************************************)
C11_ErrorIsText ==
  Trimmed /\ obj.kind # "Invalid" /\ obj.typ \in ErrorTypes =>
    /\ ret.t = "string"
    /\ obj.typ = "*errors.errorString" => ret.v = errorText(heap, obj)

\* no option of the call is nil or panics
SoundOptions == \A i \in 1..Len(opts) : opts[i].op \notin {"nil", "panic"}

\* the value given is nil, a nil pointer, a channel or a function
NothingToTrim ==
  \/ obj = NilV
  \/ IsNil(obj)
  \/ obj.kind \in {"Chan", "Func"}

(***************************************************************************)
(* C12: TrimObjectWithOpts returns nil for a nil input, for a nil pointer  *)
(* and for a value of an unsupported shape such as a channel or a          *)
(* function, and no fault is raised or recovered for them.                 *)
(***************************************************************************)
C12_NilForNothing ==
  fn = "TrimObjectWithOpts" /\ phase # "ready" /\ SoundOptions /\ NothingToTrim =>
    phase = "done" /\ ~panicked /\ ret = NilR

\* a channel was given and nil came back
C12_Witness == Trimmed /\ obj = ChanV /\ ret = NilR

\* two trimmed values are the same value
RECURSIVE SameR(_, _)
SameR(a, b) ==
  /\ a.t = b.t
  /\ CASE a.t = "map" ->
            /\ DOMAIN a.v = DOMAIN b.v
            /\ \A k \in DOMAIN a.v : SameR(a.v[k], b.v[k])
       [] a.t = "seq" ->
            /\ Len(a.v) = Len(b.v)
            /\ \A i \in 1..Len(a.v) : SameR(a.v[i], b.v[i])
       [] a.t \in {"nil", "overflow", "hang"} -> TRUE
       [] OTHER -> a.v = b.v

\* the options of the call that are a given option
OptionsOf(op) == {i \in 1..Len(opts) : opts[i].op = op}

\* what the last option of a kind sets, or the default when there is none
LastSet(op, default) ==
  IF OptionsOf(op) = {} THEN default
  ELSE IF op = "WithIgnores" THEN opts[SetMax(OptionsOf(op))].ignores
  ELSE opts[SetMax(OptionsOf(op))].limit

(***************************************************************************)
(* C13: the policy of a call is the default policy (3, 128, 10, 4096, no   *)
(* ignored name) with each field set by the last option that sets it; a    *)
(* later WithIgnores replaces the names of an earlier one; and the trim is *)
(* made with that policy.                                                  *)
(***************************************************************************)
C13_LastOptionWins ==
  Trimmed =>
    /\ trimmer.ArrLimit = LastSet("WithArrLimit", 3)
    /\ trimmer.StrLimit = LastSet("WithStrLimit", 128)
    /\ trimmer.DeepLimit = LastSet("WithDeepLimit", 10)
    /\ trimmer.WholeLimit = LastSet("WithWholeLimit", 4096)
    /\ trimmer.Ignores = LastSet("WithIgnores", <<>>)
    /\ SameR(ret, trimObjectWithIgnores(heap, obj, LastSet("WithArrLimit", 3),
                                        LastSet("WithStrLimit", 128),
                                        LastSet("WithDeepLimit", 10),
                                        LastSet("WithIgnores", <<>>)))

\* a call with two WithIgnores of different names
C13_Witness ==
  /\ Trimmed
  /\ Len(opts) = 2
  /\ opts[1].op = "WithIgnores"
  /\ opts[2].op = "WithIgnores"
  /\ opts[1] # opts[2]
  /\ trimmer.Ignores = opts[2].ignores
  /\ ret.t = "map"

\* the whole-payload caps the call is made again with
WholeLimits == {-1, 0, 1, defaultWholeLimit}

\* the options of the call with w given to every WithWholeLimit, and to one more
WithWhole(w) ==
  [i \in 1..Len(opts) |->
     IF opts[i].op = "WithWholeLimit" THEN WithWholeLimit(w) ELSE opts[i]]
    \o <<WithWholeLimit(w)>>

(***************************************************************************)
(* C14: the whole-payload cap has no part in the result: the call returns  *)
(* the same value whatever is given to WithWholeLimit, the other options   *)
(* and the input being the same.                                           *)
(***************************************************************************)
C14_WholeLimitUnused ==
  fn = "TrimObjectWithOpts" /\ phase = "done" =>
    \A w \in WholeLimits :
      SameR(ret, TrimObjectWithOpts(heap, obj, WithWhole(w)).ret)

\* a call given a whole-payload cap of 1 that returned a mapping with entries
C14_Witness ==
  /\ Trimmed
  /\ \E i \in 1..Len(opts) : opts[i] = WithWholeLimit(1)
  /\ ret.t = "map"
  /\ DOMAIN ret.v # {}

(***************************************************************************)
(* C15: JsonObjectWithOpts returns the JSON text of what TrimObjectWithOpts *)
(* returns for the same value and options, and returns the empty string    *)
(* exactly when that trimmed value cannot be serialized, which is when a   *)
(* complex number is in it.                                                *)
(***************************************************************************)
\* a complex number somewhere in the trimmed value r
RECURSIVE HasComplex(_)
HasComplex(r) ==
  \/ r.t = "complex128"
  \/ \E k \in Slots(r) : HasComplex(r.v[k])

\* the text text is what encoding/json writes for a value of r's type
TextOfType(r, text) ==
  /\ text # <<>>
  /\ CASE r.t = "map" -> text[1] = "{" /\ text[Len(text)] = "}"
       [] r.t = "seq" /\ Len(r.v) > 0 -> text[1] = "[" /\ text[Len(text)] = "]"
       [] r.t = "string" -> text[1] = "\"" /\ text[Len(text)] = "\""
                            /\ Len(text) >= Len(r.v) + 2
       [] r.t = "bool" -> text \in {<<"t", "r", "u", "e">>, <<"f", "a", "l", "s", "e">>}
       [] r.t \in {"nil", "seq"} -> text = <<"n", "u", "l", "l">>
       [] OTHER -> text = Itoa(r.v)

JsonDone == fn = "JsonObjectWithOpts" /\ phase = "done"

C15_JsonTextOrEmpty ==
  JsonDone =>
    /\ ret.t = "string"
    /\ (ret.v = <<>>) <=> HasComplex(TrimObjectWithOpts(heap, obj, opts).ret)
    /\ (ret.v = <<>>) <=> ~Marshal(TrimObjectWithOpts(heap, obj, opts).ret).ok
    /\ ret.v # <<>> =>
         /\ ret.v = Marshal(TrimObjectWithOpts(heap, obj, opts).ret).text
         /\ TextOfType(TrimObjectWithOpts(heap, obj, opts).ret, ret.v)

\* a call that returned the empty string for a complex number below the root
C15_Witness ==
  /\ JsonDone
  /\ ret = StrR(<<>>)
  /\ obj.kind \in {"Struct", "Map", "Slice"}
  /\ HasComplex(TrimObjectWithOpts(heap, obj, opts).ret)

\* a call that returned the text of a mapping
C15_TextWitness ==
  /\ JsonDone
  /\ Len(ret.v) > 2
  /\ ret.v[1] = "{"
  /\ Cardinality(DOMAIN TrimObjectWithOpts(heap, obj, opts).ret.v) = 2

(***************************************************************************)
(* C16: calls of TrimObjectWithOpts running side by side, on the same      *)
(* value or on different ones, each return what the same call returns when *)
(* it runs alone, and each works on a trimmer no other call holds.         *)
(***************************************************************************)
\* what the call of goroutine g returns when it runs alone
Alone(g) == TrimObjectWithOpts(gos[g].heap, gos[g].obj, gos[g].opts).ret

C16_SideBySideAsAlone ==
  /\ \A g \in DOMAIN gos : gos[g].pc = "done" => SameR(gos[g].ret, Alone(g))
  /\ \A g \in DOMAIN gos, h \in DOMAIN gos :
       g # h /\ gos[g].trimmer # 0 => gos[g].trimmer # gos[h].trimmer

\* two calls on the same value with different options returned different
\* results, the second having set its options before the first traversed
C16_Witness ==
  /\ DOMAIN gos = Goroutines
  /\ gos[1].pc = "done" /\ gos[2].pc = "done"
  /\ gos[1].obj = gos[2].obj
  /\ Len(cells) = 2
  /\ cells[1] # cells[2]
  /\ ~SameR(gos[1].ret, gos[2].ret)
  /\ gos[1].ret.t = "map" /\ gos[2].ret.t = "map"

(***************************************************************************)
(* C17: the result of TrimObjectWithOpts depends on the value and the      *)
(* options alone: a map gives the same result in whatever order            *)
(* v.MapKeys() hands out its keys, whatever the type of the keys.          *)
(***************************************************************************)
\* the map o with its keys handed out in the opposite order
OtherOrder(o) ==
  [o EXCEPT !.entries = [i \in 1..Len(@) |-> @[Len(@) + 1 - i]]]

MapTrimmed == Trimmed /\ obj.kind = "Map" /\ heap = <<>>

C17_SameInAnyOrder ==
  MapTrimmed => SameR(ret, TrimObjectWithOpts(heap, OtherOrder(obj), opts).ret)

\* the same for the maps with keys of type string
C17_StringKeysSameInAnyOrder ==
  MapTrimmed /\ (\A i \in 1..Len(obj.entries) : obj.entries[i].key.kind = "String")
    => SameR(ret, TrimObjectWithOpts(heap, OtherOrder(obj), opts).ret)

(***************************************************************************)
(* C18: Get(key) on the local cache returns the stored value and no error  *)
(* when key has an entry that is not expired (its expire is 0, or the time *)
(* is before it), and returns "" with ErrNotFound when key has no entry or *)
(* an expired one, which it then removes from the cache.                   *)
(***************************************************************************)
\* the entry Get(key) of caller g found is there and not expired
Stored(g) ==
  LET f == frames[g] IN
    /\ f.key \in DOMAIN f.before
    /\ ~f.before[f.key].isNil
    /\ f.before[f.key].expire = 0 \/ f.at < f.before[f.key].expire

\* what the claim says of a Get of caller g that returned
GetAsStated(g) ==
  LET f == frames[g] IN
    IF Stored(g)
    THEN f.val = f.before[f.key].raw /\ f.err = "nil" /\ l.m = f.before
    ELSE f.val = "" /\ f.err = ErrNotFound /\ f.key \notin DOMAIN l.m

\* a call of Get on a cache that has a map
GetOf(g) == g \in DOMAIN frames /\ frames[g].op = "Get" /\ active(l)

C18_GetStoredOrNotFound ==
  \A g \in Callers :
    GetOf(g) => /\ frames[g].pc # "panic"
                /\ frames[g].pc = "done" => GetAsStated(g)

\* the same for the caches NewLocal builds
C18_GetOfNewLocal ==
  \A g \in Callers :
    GetOf(g) /\ l.nowFunc = "time.Now" =>
      /\ frames[g].pc # "panic"
      /\ frames[g].pc = "done" => GetAsStated(g)

\* a Get on a cache of NewLocal found an expired entry and removed it
C18_ExpiredRemoved ==
  /\ GetOf(1)
  /\ l.nowFunc = "time.Now"
  /\ frames[1].pc = "done"
  /\ frames[1].key \in DOMAIN frames[1].before
  /\ frames[1].key \notin DOMAIN l.m

(***************************************************************************)
(* C19, as stated: trimObject unwraps one level of pointer and no more:    *)
(* for a pointer to a pointer to a struct, map or sequence it returns nil  *)
(* and does not traverse the value pointed to.                             *)
(***************************************************************************)
\* the value two or more levels of pointer lead to
RECURSIVE Pointee(_)
Pointee(o) == IF o.kind = "Ptr" THEN Pointee(o.elem) ELSE o

\* a call on a pointer to a pointer, at whose end is a struct, map or sequence
PointerToPointer ==
  /\ Trimmed
  /\ heap = <<>>
  /\ obj.kind = "Ptr"
  /\ obj.elem.kind = "Ptr"
  /\ Pointee(obj).kind \in {"Struct", "Map", "Slice", "Array"}

C19_OneLevelOnly == PointerToPointer => ret = NilR

(***************************************************************************)
(* C19, amended: trimObject follows every level of pointer: for a pointer  *)
(* to a pointer to a struct, map or sequence it returns what its switch    *)
(* gives for the value at the end of the pointers, the mapping trimStruct  *)
(* or trimMap builds of it or the sequence trimSlice builds of it, and     *)
(* never nil.                                                              *)
(***************************************************************************)
C19_EveryLevelFollowed ==
  PointerToPointer =>
    /\ ret # NilR
    /\ ret.t = IF Pointee(obj).kind \in {"Struct", "Map"} THEN "map" ELSE "seq"
    /\ SameR(ret, objectSwitch(heap, Pointee(obj), trimmer.ArrLimit, trimmer.StrLimit,
                               trimmer.DeepLimit,
                               {trimmer.Ignores[i] : i \in 1..Len(trimmer.Ignores)},
                               MaxStack))

\* the field of a struct behind two pointers is in the result
C19_Witness ==
  /\ PointerToPointer
  /\ obj.elem.elem.kind = "Struct"
  /\ ret.t = "map"
  /\ DOMAIN ret.v # {}

(***************************************************************************)
(* C20: an element of a sequence that is itself a sequence is dropped and  *)
(* not recursed into: no sequence in the result of TrimObjectWithOpts has  *)
(* a sequence as a direct element, whether the elements of the outer       *)
(* sequence are of a slice type or of an interface type.                   *)
(***************************************************************************)
\* a sequence somewhere in r has a sequence as a direct element
RECURSIVE SeqInSeq(_)
SeqInSeq(r) ==
  \/ r.t = "seq" /\ \E i \in 1..Len(r.v) : r.v[i].t = "seq"
  \/ \E k \in Slots(r) : SeqInSeq(r.v[k])

C20_NoSequenceInSequence == Trimmed => ~SeqInSeq(ret)

\* the same for the sequences whose elements are of a slice or array type
C20_NoSequenceInSliceOfSlices ==
  Trimmed /\ heap = <<>> /\ obj.kind \in {"Slice", "Array"}
    /\ (\A i \in 1..Len(obj.elems) : obj.elems[i].kind \in {"Slice", "Array"})
    => ret = SeqR(<<>>)

\* a slice of slices was trimmed with room for its elements
C20_SliceOfSlicesTrimmed ==
  /\ Trimmed /\ heap = <<>> /\ obj.kind = "Slice"
  /\ Len(obj.elems) > 0
  /\ \A i \in 1..Len(obj.elems) : obj.elems[i].kind = "Slice"
  /\ trimmer.ArrLimit > 0 /\ trimmer.DeepLimit > 0

(***************************************************************************)
(* C21: a sequence trimmed with depth budget d trims each element with the *)
(* same budget d: the value a kept element has in the result is the result *)
(* of trimming that element on its own with budget d.                      *)
(***************************************************************************)
\* the positions, in order, of the kept ones of the first n elements of elems
RECURSIVE KeptAt(_, _)
KeptAt(elems, n) ==
  IF n <= 0 THEN <<>>
  ELSE IF n > Len(elems) THEN KeptAt(elems, Len(elems))
  ELSE KeptAt(elems, n - 1) \o (IF Kept(elems[n]) THEN <<n>> ELSE <<>>)

\* the element e as a value given to TrimObjectWithOpts: what it holds when it
\* is of an interface type
OnItsOwn(e) == IF e.kind = "Interface" THEN e.dyn ELSE e

SequenceTrimmed ==
  /\ Trimmed
  /\ heap = <<>>
  /\ obj.kind \in {"Slice", "Array"}
  /\ trimmer.ArrLimit >= 0

\* the value at position j of the result is element i trimmed on its own
AsOnItsOwn(j, i) ==
  SameR(ret.v[j], TrimObjectWithOpts(heap, OnItsOwn(obj.elems[i]), opts).ret)

C21_ElementsAtSameDepth ==
  SequenceTrimmed =>
    /\ ret.t = "seq"
    /\ Len(ret.v) = Len(KeptAt(obj.elems, trimmer.ArrLimit))
    /\ \A j \in 1..Len(ret.v) : AsOnItsOwn(j, KeptAt(obj.elems, trimmer.ArrLimit)[j])

\* an element of an interface type, or a pointer to one
OfInterfaceType(e) ==
  e.kind = "Interface" \/ (e.kind = "Ptr" /\ e.elem.kind = "Interface")

\* the same for the sequences with no element of an interface type
C21_ConcreteElementsAtSameDepth ==
  SequenceTrimmed /\ (\A i \in 1..Len(obj.elems) : ~OfInterfaceType(obj.elems[i])) =>
    /\ ret.t = "seq"
    /\ Len(ret.v) = Len(KeptAt(obj.elems, trimmer.ArrLimit))
    /\ \A j \in 1..Len(ret.v) : AsOnItsOwn(j, KeptAt(obj.elems, trimmer.ArrLimit)[j])

\* a sequence of structs was trimmed with a budget that reaches their fields
C21_StructElementsTrimmed ==
  /\ SequenceTrimmed
  /\ Len(obj.elems) > 0
  /\ obj.elems[1].kind = "Struct"
  /\ Len(ret.v) > 0
  /\ ret.v[1].t = "map" /\ DOMAIN ret.v[1].v # {}

(***************************************************************************)
(* C22, as stated: trimMap treats the values of a map as trimStruct treats *)
(* the fields of a struct: a map with string keys and a struct whose       *)
(* emitted names and values are the keys and values of the map give the    *)
(* same mapping under the same options.                                    *)
(***************************************************************************)
\* the struct with one exported field for each entry of the map o, emitted
\* under the key of the entry and holding its value
AsStruct(o) ==
  StructV([i \in 1..Len(o.entries) |->
            FieldOf(<<"F">> \o o.entries[i].key.val, o.entries[i].key.val,
                    o.entries[i].val)])

\* a map with keys of type string was trimmed
StringMapTrimmed ==
  /\ Trimmed
  /\ heap = <<>>
  /\ obj.kind = "Map"
  /\ \A i \in 1..Len(obj.entries) : obj.entries[i].key.kind = "String"

PlainValues ==
  /\ \A i \in 1..Len(obj.entries) :
       derefOnce(heap, obj.entries[i].val).kind \notin {"Slice", "Array"}
  /\ \A k \in DOMAIN ret.v :
       ret.v[k].t # "nil" /\ ~(ret.v[k].t = "map" /\ DOMAIN ret.v[k].v = {})

EmptyMapping(r) == r.t = "map" /\ DOMAIN r.v = {}

StructTrimmed == Trimmed /\ heap = <<>> /\ obj.kind = "Struct" /\ ret.t = "map"

C23_NoEmptyMappingInStruct ==
  StructTrimmed => \A k \in DOMAIN ret.v : ~EmptyMapping(ret.v[k])

\* the same for the structs with no field of an interface type
C23_NoEmptyMappingOfTypedField ==
  StructTrimmed /\ (\A i \in 1..Len(obj.fields) : ~OfInterfaceType(obj.fields[i].val))
    => \A k \in DOMAIN ret.v : ~EmptyMapping(ret.v[k])

\* a struct whose field is a struct or a map that trims to nothing was trimmed
C23_TypedFieldLeftOut ==
  /\ StructTrimmed
  /\ Len(obj.fields) = 1
  /\ obj.fields[1].val.kind \in {"Struct", "Map"}
  /\ obj.typ = "struct"
  /\ trimmer.DeepLimit > 0
  /\ DOMAIN ret.v = {}

(***************************************************************************)
(* C24: a value the scalar classifier or the special-type formatter        *)
(* recognises (a bool, a number, a string, an error, a time, a duration,   *)
(* or a pointer to a bool, a number or a string) given to                  *)
(* TrimObjectWithOpts comes back as its scalar whatever the depth limit    *)
(* is, zero and negative limits included.                                  *)
(***************************************************************************)
PrimaryKinds ==
  {"Bool", "String"} \cup IntKinds \cup UintKinds \cup FloatKinds \cup ComplexKinds

\* a value valOfSpecialType or valOfPrimaryType has a case for
Recognised(o) ==
  /\ o.kind # "Invalid"
  /\ \/ o.kind \in PrimaryKinds
     \/ o.kind = "Ptr" /\ o.elem.kind \in PrimaryKinds
     \/ o.typ \in {"*errors.errorString", "time.Time", "time.Duration"}

\* the options of the call with the depth limit set to d after them
AtDepth(d) == opts \o <<WithDeepLimit(d)>>

C24_ScalarAtAnyDepth ==
  Trimmed /\ heap = <<>> /\ Recognised(obj) =>
    /\ ret.t \in {"bool", "int64", "uint64", "float64", "complex128", "string"}
    /\ SameR(ret, TrimObjectWithOpts(heap, obj, AtDepth(defaultDeepLimit)).ret)

\* a recognised value trimmed with no depth left
C24_Witness ==
  /\ Trimmed /\ heap = <<>> /\ Recognised(obj)
  /\ trimmer.DeepLimit <= 0
  /\ obj.kind \in {"Ptr", "Struct"}
  /\ ret.t = "string"

(***************************************************************************)
(* C25: a struct field is emitted under the part of its json tag before    *)
(* the first comma when that part is not empty, and under its declared     *)
(* name otherwise; a field whose tag is exactly "-" is never emitted; the  *)
(* visibility check is made on the emitted key, not on the declared name.  *)
(***************************************************************************)
\* the part of s before the first c
RECURSIVE Before(_, _)
Before(s, c) ==
  IF s = <<>> THEN <<>>
  ELSE IF s[1] = c THEN <<>>
  ELSE <<s[1]>> \o Before(Tail(s), c)

\* the key the claim gives field i of the struct
KeyOfField(i) ==
  IF Before(obj.fields[i].tag, ",") # <<>>
  THEN Before(obj.fields[i].tag, ",")
  ELSE obj.fields[i].name

IgnoreSet == {trimmer.Ignores[j] : j \in 1..Len(trimmer.Ignores)}

\* field i is not excluded by its tag, and its key passes the visibility check
Emittable(i) ==
  /\ obj.fields[i].tag # <<"-">>
  /\ KeyOfField(i) \notin IgnoreSet
  /\ ~HasPrefix(KeyOfField(i), ProtoPrefix)

\* no other field is emitted under the key of field i, as its key or as the
\* key of its size
AloneUnderKey(i) ==
  \A j \in FieldsGiven \ {i} :
    KeyOfField(j) # KeyOfField(i) /\ SizePrefix \o KeyOfField(j) # KeyOfField(i)

\* a struct was trimmed with a depth limit that reaches its fields
FieldsTrimmed ==
  Trimmed /\ heap = <<>> /\ obj.kind = "Struct" /\ obj.typ = "struct"
    /\ trimmer.DeepLimit >= 2

C25_EmittedKeys ==
  FieldsTrimmed =>
    /\ \A k \in DOMAIN ret.v :
         \E i \in FieldsGiven :
           Emittable(i) /\ k \in {KeyOfField(i), SizePrefix \o KeyOfField(i)}
    /\ \A i \in FieldsGiven :
         /\ obj.fields[i].val.kind = "Int"
         /\ Exported(obj.fields[i].name)
         /\ AloneUnderKey(i)
         => IF Emittable(i)
            THEN /\ KeyOfField(i) \in DOMAIN ret.v
                 /\ ret.v[KeyOfField(i)] = ScalarR("int64", obj.fields[i].val.val)
            ELSE KeyOfField(i) \notin DOMAIN ret.v

\* a field whose declared name is ignored is emitted under the name of its
\* tag, which has options after a comma
C25_Witness ==
  /\ FieldsTrimmed
  /\ \E i \in FieldsGiven :
       /\ Index(obj.fields[i].tag, ",") > 0
       /\ obj.fields[i].name \in IgnoreSet
       /\ obj.fields[i].val.kind = "Int"
       /\ KeyOfField(i) \in DOMAIN ret.v
       /\ ret.v[KeyOfField(i)].t = "int64"

(***************************************************************************)
(* C26: trimSlice of a sequence of length zero returns an empty sequence   *)
(* and not nil: what TrimObjectWithOpts gives for a slice or array of      *)
(* length zero can be told from the nil it gives for no value, in the      *)
(* value and in the JSON text of it.                                       *)
(***************************************************************************)
EmptySequenceGiven ==
  heap = <<>> /\ obj.kind \in {"Slice", "Array"} /\ Len(obj.elems) = 0

\* the text JsonObjectWithOpts returns for nil under the options of the call
TextOfNil == JsonObjectWithOpts(heap, NilV, opts).ret.v

C26_EmptySequenceNotNull ==
  /\ Trimmed /\ EmptySequenceGiven => ret = SeqR(<<>>)
  /\ JsonDone /\ EmptySequenceGiven /\ ~TrimObjectWithOpts(heap, obj, opts).panicked
       => ret.v # TextOfNil

\* the same for the value alone, the text left aside
C26_EmptySequenceValue == Trimmed /\ EmptySequenceGiven => ret = SeqR(<<>>)

(***************************************************************************)
(* C27, as stated: with depth limit D a mapping of the result that is not  *)
(* empty is at a level L < D, the outermost mapping of a path being at     *)
(* level 1 and sequences not counting; and a struct or a map given with    *)
(* D <= 1 comes back as the empty mapping whatever it holds.               *)
(***************************************************************************)
\* every mapping of r that is not empty is at a level below D, the mappings
\* directly in r being at level L
RECURSIVE LevelsBelow(_, _, _)
LevelsBelow(r, L, D) ==
  CASE r.t = "map" ->
         /\ DOMAIN r.v # {} => L < D
         /\ \A k \in DOMAIN r.v : LevelsBelow(r.v[k], L + 1, D)
    [] r.t = "seq" -> \A i \in 1..Len(r.v) : LevelsBelow(r.v[i], L, D)
    [] OTHER -> TRUE

\* a struct or a map was given with a depth limit of 1 or less
ShallowContainer ==
  Trimmed /\ heap = <<>> /\ obj.kind \in {"Struct", "Map"} /\ trimmer.DeepLimit <= 1

C27_NonEmptyBelowLimit ==
  /\ Trimmed => LevelsBelow(ret, 1, trimmer.DeepLimit)
  /\ ShallowContainer => ret = MapR(EmptyFcn, 0)

(***************************************************************************)
(* C27, amended: the same, but a time.Time, which is a struct, comes back  *)
(* as its formatted text with any depth limit: a struct other than a       *)
(* time.Time, or a map, given with D <= 1 comes back as the empty mapping. *)
(***************************************************************************)
C27_NonEmptyBelowLimitButTime ==
  /\ Trimmed => LevelsBelow(ret, 1, trimmer.DeepLimit)
  /\ ShallowContainer =>
       IF obj.typ = "time.Time"
       THEN ret = StrR(timeFormat(obj.val))
       ELSE ret = MapR(EmptyFcn, 0)

\* a struct with an exported int field given with a depth limit of 1
C27_Witness ==
  /\ ShallowContainer
  /\ trimmer.DeepLimit = 1
  /\ obj.kind = "Struct" /\ obj.typ = "struct"
  /\ Len(obj.fields) = 1
  /\ obj.fields[1].val.kind = "Int"
  /\ Exported(obj.fields[1].name)
  /\ ret = MapR(EmptyFcn, 0)

(***************************************************************************)
(* C28: the mapping of a struct has the key "_size__" + k with the integer *)
(* n exactly when the struct has a field emitted under k that holds a      *)
(* sequence of length n whose trimmed sequence is not empty and is under   *)
(* k, cut or not; a field that is itself named "_size__" + k changes       *)
(* nothing of this.                                                        *)
(***************************************************************************)
\* field i holds a sequence, and the mapping has a sequence that is not empty
\* under its key
SequenceAttached(i) ==
  /\ SequenceOf(obj.fields[i]).kind \in {"Slice", "Array"}
  /\ Exported(obj.fields[i].name)
  /\ Emittable(i)
  /\ KeyOfField(i) \in DOMAIN ret.v
  /\ ret.v[KeyOfField(i)].t = "seq"
  /\ Len(ret.v[KeyOfField(i)].v) > 0

\* the mapping has the size key of field i with the length of its sequence
SizeWritten(i) ==
  /\ SizePrefix \o KeyOfField(i) \in DOMAIN ret.v
  /\ ret.v[SizePrefix \o KeyOfField(i)].t \in {"int", "int64"}
  /\ ret.v[SizePrefix \o KeyOfField(i)].v = Len(SequenceOf(obj.fields[i]).elems)

C28_SizeKeyIffSequence ==
  FieldsTrimmed =>
    /\ \A i \in FieldsGiven : SequenceAttached(i) => SizeWritten(i)
    /\ \A k \in DOMAIN ret.v :
         HasPrefix(k, SizePrefix) /\ ret.v[k].t \in {"int", "int64"} =>
           \E i \in FieldsGiven :
             k = SizePrefix \o KeyOfField(i) /\ SequenceAttached(i) /\ SizeWritten(i)

\* the same for the structs with no field whose key starts with "_size__"
C28_SizeKeyIffSequenceNoClash ==
  /\ FieldsTrimmed
  /\ \A j \in FieldsGiven : ~HasPrefix(KeyOfField(j), SizePrefix) /\ AloneUnderKey(j)
  =>
    /\ \A i \in FieldsGiven : SequenceAttached(i) => SizeWritten(i)
    /\ \A k \in DOMAIN ret.v :
         HasPrefix(k, SizePrefix) /\ ret.v[k].t \in {"int", "int64"} =>
           \E i \in FieldsGiven :
             k = SizePrefix \o KeyOfField(i) /\ SequenceAttached(i) /\ SizeWritten(i)

\* a sequence shorter than the array limit is under its key with its size
C28_UncutSequenceHasSize ==
  /\ FieldsTrimmed
  /\ \E i \in FieldsGiven :
       /\ SequenceAttached(i)
       /\ SizeWritten(i)
       /\ Len(SequenceOf(obj.fields[i]).elems) < trimmer.ArrLimit

(***************************************************************************)
(* C29: with Get, Set, SetNx, Del and Expire of two goroutines in any      *)
(* order, the delete of Get removes an entry only when the entry in the    *)
(* map at that moment is expired, so that a value a completed Set stored   *)
(* with no expiry, or with one still to come, is not removed by a Get.     *)
(***************************************************************************)
\* the delete of the Get of g removes the entry under its key
GetRemoves(g) ==
  /\ frames[g].op = "Get"
  /\ frames[g].pc = "expired"
  /\ frames'[g].pc = "done"
  /\ frames[g].key \in DOMAIN l.m
  /\ frames[g].key \notin DOMAIN l'.m

C29_GetRemovesOnlyExpired ==
  [][\A g \in ConcCallers :
       GetRemoves(g) => ~l.m[frames[g].key].isNil /\ ~live(l.m[frames[g].key])]_vars

\* the same when no other goroutine changes the entry between the read of
\* Get and its delete: then Get removes what it read, at a time not earlier
C29_GetRemovesTheEntryItRead ==
  [][\A g \in Callers :
       GetRemoves(g) => l.m[frames[g].key].isNil \/ ~live(l.m[frames[g].key])]_vars

(***************************************************************************)
(* C30: the record DataWith writes has the payload as it was when DataWith *)
(* was called, and no write of the caller to the payload after the return  *)
(* of DataWith happens during the traversal of the trimmer.                *)
(***************************************************************************)
Written == fn = "DataWith" /\ frames[1].pc = "written"

C30_LogsPayloadAsGiven ==
  /\ Written => SameR(ret, toZapFields(frames[1].given, opts[1].ignores))
  /\ fn = "DataWith" => ~frames[1].raced

\* the same for the payloads an interface value holds a copy of
C30_LogsCopiedPayloadAsGiven ==
  /\ Written /\ ~Shared(frames[1].given)
       => SameR(ret, toZapFields(frames[1].given, opts[1].ignores))
  /\ fn = "DataWith" /\ ~Shared(obj) => ~frames[1].raced
====
